---- MODULE Spec2Model ----
(***************************************************************************)
(* A model of liwin's Windows backend: the Event Translation State         *)
(* (wndproc.rs), the message pump and window lifecycle (window.rs,          *)
(* hwnd.rs) and the raw input decoder (wndproc.rs).                         *)
(***************************************************************************)
EXTENDS Integers, Sequences, FiniteSets, TLC

VARIABLES
    state,        \* contents of the boxed State: handler_fn, handler_state, low_surrogate
    state_alloc,  \* the Box<State> owned by Window.state: "none", "live" or "freed"
    hwnd,         \* the native window owned by Hwnd.hwnd: "none", "live" or "destroyed"
    class,        \* the window class owned by Hwnd.class: "none", "registered" or "unregistered"
    userdata,     \* GWLP_USERDATA of the native window: 0 or StatePtr
    queue,        \* the native message queue of the window (posted messages)
    pc,           \* where the thread owning the Window is
    handler,      \* the closure local of the poll call in progress (0: none)
    wait,         \* result of get_messages in the blocking call in progress
    returned,     \* how the last poll call ended
    calls,        \* the wndproc invocations made by the latest step
    config,       \* the Config given to Window::new
    gwl,          \* GWL_STYLE and GWL_EXSTYLE of the native window
    words,        \* the values the two style words have had since CreateWindowExW
    log,          \* the lifecycle calls made to the platform, each with its outcome
    result        \* what Window::new returned: "none" (not called), "Ok" or "Err"

vars == <<state, state_alloc, hwnd, class, userdata, queue, pc, handler, wait,
          returned, calls, config, gwl, words, log, result>>

(***************************************************************************)
(* Bounds of the model.                                                     *)
(***************************************************************************)
MaxQueue == 2      \* posted messages waiting in the queue
NumHandlers == 2   \* distinct caller closures
MaxSent == 2       \* messages ShowWindow sends to the callback in one call
MaxUnits == 2      \* WM_CHAR messages preloaded by the text specification
MaxPending == 3    \* WM_CHAR messages preloaded by the pending-unit specification
MaxSamples == 2    \* WM_INPUT messages preloaded by the device specification
MaxEarly == 1      \* messages reaching the callback before a State is attached

Handlers == 1..NumHandlers

(***************************************************************************)
(* Platform constants used by the source (windows_sys values).              *)
(***************************************************************************)
RI_KEY_MAKE == 0
RI_KEY_BREAK == 1
RI_KEY_E0 == 2
RI_KEY_E1 == 4
RIM_TYPEMOUSE == 0
RIM_TYPEKEYBOARD == 1
MOUSE_MOVE_RELATIVE == 0
MOUSE_MOVE_ABSOLUTE == 1
RI_MOUSE_LEFT_BUTTON_DOWN == 1
RI_MOUSE_LEFT_BUTTON_UP == 2
RI_MOUSE_RIGHT_BUTTON_DOWN == 4
RI_MOUSE_RIGHT_BUTTON_UP == 8
RI_MOUSE_MIDDLE_BUTTON_DOWN == 16
RI_MOUSE_MIDDLE_BUTTON_UP == 32
RI_MOUSE_BUTTON_4_DOWN == 64
RI_MOUSE_BUTTON_4_UP == 128
RI_MOUSE_BUTTON_5_DOWN == 256
RI_MOUSE_BUTTON_5_UP == 512
RI_MOUSE_WHEEL == 1024
RI_MOUSE_HWHEEL == 2048
WHEEL_DELTA == 120
FakeVKey == 255
RightShiftMakeCode == 54

\* x & y on unsigned integers
RECURSIVE BitAnd(_, _)
BitAnd(x, y) ==
    IF x = 0 \/ y = 0 THEN 0
    ELSE (x % 2) * (y % 2) + 2 * BitAnd(x \div 2, y \div 2)

\* An LPARAM (isize, 64 bits) is its four 16-bit words, lowest first; LParam(n)
\* is the LPARAM of a small n >= 0
LParam(n) == <<n % 65536, (n \div 65536) % 65536, 0, 0>>

\* `lparam as u16`: the lowest word
AsU16(p) == p[1]

Sar16_by_two_words(p) ==
    LET fill == IF p[4] >= 32768 THEN 65535 ELSE 0 IN <<p[3], p[4], fill, fill>>

\* `lparam >> 16` on isize: an arithmetic shift by one word
Sar16(p) == <<p[2], p[3], p[4], IF p[4] >= 32768 THEN 65535 ELSE 0>>

\* `v as i16` of a 16-bit value
AsI16(v) == IF v % 65536 >= 32768 THEN (v % 65536) - 65536 ELSE v % 65536

(***************************************************************************)
(* Event Translation State (wndproc.rs, struct State).                      *)
(***************************************************************************)
StatePtr == 1

\* impl Default for State
DefaultState ==
    [handler_fn |-> "default_state_handler", handler_state |-> 0, low_surrogate |-> 0]

set_handler_fn_only(st, h) ==
    [st EXCEPT !.handler_fn = "handler_fn"]

\* State::set_handler: the monomorphised trampoline and the closure's address
set_handler(st, h) ==
    [st EXCEPT !.handler_fn = "handler_fn", !.handler_state = h]

remove_handler_clears_slot(st) ==
    [st EXCEPT !.handler_fn = "default_state_handler", !.low_surrogate = 0]

remove_handler_keeps_fn(st) == st

\* State::remove_handler
remove_handler(st) ==
    [st EXCEPT !.handler_fn = "default_state_handler"]

send_event_ignores_fn(st, event) ==
    [to |-> st.handler_state, event |-> event]

\* State::send_event: one delivery; to = 0 is the no-op default_state_handler,
\* to = h is the trampoline calling the closure at handler_state
send_event(st, event) ==
    [to |-> IF st.handler_fn = "handler_fn" THEN st.handler_state ELSE 0,
     event |-> event]

is_low_surrogate(code) == code >= 56320 /\ code <= 57343    \* 0xDC00..=0xDFFF

is_high_surrogate(code) == code >= 55296 /\ code <= 56319   \* 0xD800..=0xDBFF

None == -1

\* char::from_u32
char_from_u32(c) ==
    IF c >= 0 /\ c <= 1114111 /\ ~(c >= 55296 /\ c <= 57343) THEN c ELSE None

\* decode_utf16(low, high): std::char::decode_utf16([low, high]).next().and_then(Result::ok).
\* The iterator reads its FIRST unit as the leading half: a first unit outside the
\* surrogate range is a character by itself, a first unit in 0xDC00..=0xDFFF is an
\* unpaired trailing surrogate (an error), and a first unit in 0xD800..=0xDBFF needs a
\* second unit in 0xDC00..=0xDFFF.
decode_utf16(low, high) ==
    IF ~(low >= 55296 /\ low <= 57343) THEN low
    ELSE IF low >= 56320 THEN None
    ELSE IF ~(high >= 56320 /\ high <= 57343) THEN None
    ELSE 65536 + ((low - 55296) * 1024) + (high - 56320)

TextEvent(c) == [type |-> "Text", c |-> c]

take_u16_buffers_high(st, code) ==
    IF is_low_surrogate(code) \/ is_high_surrogate(code)
    THEN [st |-> [st EXCEPT !.low_surrogate = code], sent |-> <<>>]
    ELSE [st |-> [st EXCEPT !.low_surrogate = 0],
          sent |-> <<send_event(st, TextEvent(code))>>]

take_u16_emits_stale(st, code) ==
    IF is_low_surrogate(code)
    THEN [st |-> [st EXCEPT !.low_surrogate = code], sent |-> <<>>]
    ELSE IF is_high_surrogate(code)
    THEN [st |-> [st EXCEPT !.low_surrogate = 0], sent |-> <<>>]
    ELSE [st |-> [st EXCEPT !.low_surrogate = 0],
          sent |-> IF st.low_surrogate = 0
                   THEN <<send_event(st, TextEvent(code))>>
                   ELSE <<send_event(st, TextEvent(st.low_surrogate)),
                          send_event(st, TextEvent(code))>>]

take_u16_keeps_first(st, code) ==
    IF is_low_surrogate(code)
    THEN [st |-> IF st.low_surrogate = 0
                 THEN [st EXCEPT !.low_surrogate = code]
                 ELSE st,
          sent |-> <<>>]
    ELSE IF is_high_surrogate(code)
    THEN IF st.low_surrogate = 0
         THEN [st |-> st, sent |-> <<>>]
         ELSE [st |-> [st EXCEPT !.low_surrogate = 0],
               sent |-> IF decode_utf16(st.low_surrogate, code) # None
                        THEN <<send_event(st,
                                 TextEvent(decode_utf16(st.low_surrogate, code)))>>
                        ELSE <<>>]
    ELSE IF char_from_u32(code) # None
    THEN [st |-> [st EXCEPT !.low_surrogate = 0],
          sent |-> <<send_event(st, TextEvent(char_from_u32(code)))>>]
    ELSE [st |-> st, sent |-> <<>>]

\* State::take_u16_code_point: the new State and the deliveries made
take_u16_code_point(st, code) ==
    IF is_low_surrogate(code)
    THEN [st |-> [st EXCEPT !.low_surrogate = code], sent |-> <<>>]
    ELSE IF is_high_surrogate(code)
    THEN IF st.low_surrogate = 0
         THEN [st |-> st, sent |-> <<>>]
         ELSE [st |-> [st EXCEPT !.low_surrogate = 0],
               sent |-> IF decode_utf16(st.low_surrogate, code) # None
                        THEN <<send_event(st,
                                 TextEvent(decode_utf16(st.low_surrogate, code)))>>
                        ELSE <<>>]
    ELSE IF char_from_u32(code) # None
    THEN [st |-> [st EXCEPT !.low_surrogate = 0],
          sent |-> <<send_event(st, TextEvent(char_from_u32(code)))>>]
    ELSE [st |-> st, sent |-> <<>>]

(***************************************************************************)
(* Raw Input Decoder (wndproc.rs).                                          *)
(***************************************************************************)
VK_BACK == 8
VK_TAB == 9
VK_RETURN == 13
VK_ESCAPE == 27
VK_SPACE == 32
VK_PRIOR == 33
VK_NEXT == 34
VK_END == 35
VK_HOME == 36
VK_LEFT == 37
VK_UP == 38
VK_RIGHT == 39
VK_DOWN == 40
VK_INSERT == 45
VK_DELETE == 46
VK_F1 == 112
VK_F2 == 113
VK_F3 == 114
VK_F4 == 115
VK_F5 == 116
VK_F6 == 117
VK_F7 == 118
VK_F8 == 119
VK_F9 == 120
VK_F10 == 121
VK_F11 == 122
VK_F12 == 123
VK_F13 == 124
VK_F14 == 125
VK_F15 == 126
VK_F16 == 127
VK_F17 == 128
VK_F18 == 129
VK_F19 == 130
VK_F20 == 131
VK_F21 == 132
VK_F22 == 133
VK_F23 == 134
VK_F24 == 135
VK_NUMLOCK == 144
VK_SCROLL == 145
VK_LSHIFT == 160
VK_RSHIFT == 161
VK_SHIFT == 16
VK_LCONTROL == 162
VK_RCONTROL == 163
VK_CONTROL == 17
VK_LMENU == 164
VK_RMENU == 165
VK_MENU == 18
VK_LWIN == 91
VK_RWIN == 92
VK_APPS == 93
VK_SNAPSHOT == 44
VK_PAUSE == 19
VK_CAPITAL == 20
VK_VOLUME_UP == 175
VK_VOLUME_DOWN == 174
VK_VOLUME_MUTE == 173
VK_MEDIA_NEXT_TRACK == 176
VK_MEDIA_PREV_TRACK == 177
VK_MEDIA_STOP == 178
VK_MEDIA_PLAY_PAUSE == 179
VK_NUMPAD0 == 96
VK_NUMPAD1 == 97
VK_NUMPAD2 == 98
VK_NUMPAD3 == 99
VK_NUMPAD4 == 100
VK_NUMPAD5 == 101
VK_NUMPAD6 == 102
VK_NUMPAD7 == 103
VK_NUMPAD8 == 104
VK_NUMPAD9 == 105
VK_MULTIPLY == 106
VK_ADD == 107
VK_SUBTRACT == 109
VK_DECIMAL == 110
VK_DIVIDE == 111

NoKey == "None"

\* compute_key, the match on event.VKey: Some(key) as the key's name, None as NoKey
key_of_vkey(event, e0) ==
    CASE event.VKey = VK_BACK -> "Backspace"
      [] event.VKey = VK_TAB -> "Tab"
      [] event.VKey = VK_RETURN -> IF e0 THEN "NumpadEnter" ELSE "Enter"
      [] event.VKey = VK_ESCAPE -> "Escape"
      [] event.VKey = VK_SPACE -> "Space"
      [] event.VKey = VK_PRIOR -> IF e0 THEN "PageUp" ELSE "Numpad9"
      [] event.VKey = VK_NEXT -> IF e0 THEN "PageDown" ELSE "Numpad3"
      [] event.VKey = VK_END -> IF e0 THEN "End" ELSE "Numpad1"
      [] event.VKey = VK_HOME -> IF e0 THEN "Home" ELSE "Numpad7"
      [] event.VKey = VK_LEFT -> IF e0 THEN "Left" ELSE "Numpad4"
      [] event.VKey = VK_UP -> IF e0 THEN "Up" ELSE "Numpad8"
      [] event.VKey = VK_RIGHT -> IF e0 THEN "Right" ELSE "Numpad6"
      [] event.VKey = VK_DOWN -> IF e0 THEN "Down" ELSE "Numpad2"
      [] event.VKey = VK_INSERT -> IF e0 THEN "Insert" ELSE "Numpad0"
      [] event.VKey = VK_DELETE -> IF e0 THEN "Delete" ELSE "NumpadDecimal"
      [] event.VKey = 48 -> "Zero"
      [] event.VKey = 49 -> "One"
      [] event.VKey = 50 -> "Two"
      [] event.VKey = 51 -> "Three"
      [] event.VKey = 52 -> "Four"
      [] event.VKey = 53 -> "Five"
      [] event.VKey = 54 -> "Six"
      [] event.VKey = 55 -> "Seven"
      [] event.VKey = 56 -> "Eight"
      [] event.VKey = 57 -> "Nine"
      [] event.VKey = 65 -> "A"
      [] event.VKey = 66 -> "B"
      [] event.VKey = 67 -> "C"
      [] event.VKey = 68 -> "D"
      [] event.VKey = 69 -> "E"
      [] event.VKey = 70 -> "F"
      [] event.VKey = 71 -> "G"
      [] event.VKey = 72 -> "H"
      [] event.VKey = 73 -> "I"
      [] event.VKey = 74 -> "J"
      [] event.VKey = 75 -> "K"
      [] event.VKey = 76 -> "L"
      [] event.VKey = 77 -> "M"
      [] event.VKey = 78 -> "N"
      [] event.VKey = 79 -> "O"
      [] event.VKey = 80 -> "P"
      [] event.VKey = 81 -> "Q"
      [] event.VKey = 82 -> "R"
      [] event.VKey = 83 -> "S"
      [] event.VKey = 84 -> "T"
      [] event.VKey = 85 -> "U"
      [] event.VKey = 86 -> "V"
      [] event.VKey = 87 -> "W"
      [] event.VKey = 88 -> "X"
      [] event.VKey = 89 -> "Y"
      [] event.VKey = 90 -> "Z"
      [] event.VKey = VK_F1 -> "F1"
      [] event.VKey = VK_F2 -> "F2"
      [] event.VKey = VK_F3 -> "F3"
      [] event.VKey = VK_F4 -> "F4"
      [] event.VKey = VK_F5 -> "F5"
      [] event.VKey = VK_F6 -> "F6"
      [] event.VKey = VK_F7 -> "F7"
      [] event.VKey = VK_F8 -> "F8"
      [] event.VKey = VK_F9 -> "F9"
      [] event.VKey = VK_F10 -> "F10"
      [] event.VKey = VK_F11 -> "F11"
      [] event.VKey = VK_F12 -> "F12"
      [] event.VKey = VK_F13 -> "F13"
      [] event.VKey = VK_F14 -> "F14"
      [] event.VKey = VK_F15 -> "F15"
      [] event.VKey = VK_F16 -> "F16"
      [] event.VKey = VK_F17 -> "F17"
      [] event.VKey = VK_F18 -> "F18"
      [] event.VKey = VK_F19 -> "F19"
      [] event.VKey = VK_F20 -> "F20"
      [] event.VKey = VK_F21 -> "F21"
      [] event.VKey = VK_F22 -> "F22"
      [] event.VKey = VK_F23 -> "F23"
      [] event.VKey = VK_F24 -> "F24"
      [] event.VKey = VK_NUMLOCK -> "NumLock"
      [] event.VKey = VK_SCROLL -> "ScrollLock"
      [] event.VKey = VK_LSHIFT -> "LeftShift"
      [] event.VKey = VK_RSHIFT -> "RightShift"
      [] event.VKey = VK_SHIFT -> IF event.MakeCode = RightShiftMakeCode THEN "RightShift" ELSE "LeftShift"
      [] event.VKey = VK_LCONTROL -> "LeftControl"
      [] event.VKey = VK_RCONTROL -> "RightControl"
      [] event.VKey = VK_CONTROL -> IF e0 THEN "RightControl" ELSE "LeftControl"
      [] event.VKey = VK_LMENU -> "LeftAlt"
      [] event.VKey = VK_RMENU -> "RightAlt"
      [] event.VKey = VK_MENU -> IF e0 THEN "RightAlt" ELSE "LeftAlt"
      [] event.VKey = VK_LWIN -> "LeftMeta"
      [] event.VKey = VK_RWIN -> "RightMeta"
      [] event.VKey = VK_APPS -> "Menu"
      [] event.VKey = VK_SNAPSHOT -> "PrintScreen"
      [] event.VKey = VK_PAUSE -> "Pause"
      [] event.VKey = VK_CAPITAL -> "CapsLock"
      [] event.VKey = VK_VOLUME_UP -> "VolumeUp"
      [] event.VKey = VK_VOLUME_DOWN -> "VolumeDown"
      [] event.VKey = VK_VOLUME_MUTE -> "VolumeMute"
      [] event.VKey = VK_MEDIA_NEXT_TRACK -> "MediaNext"
      [] event.VKey = VK_MEDIA_PREV_TRACK -> "MediaPrevious"
      [] event.VKey = VK_MEDIA_STOP -> "MediaStop"
      [] event.VKey = VK_MEDIA_PLAY_PAUSE -> "MediaPlayPause"
      [] event.VKey = VK_NUMPAD0 -> "Numpad0"
      [] event.VKey = VK_NUMPAD1 -> "Numpad1"
      [] event.VKey = VK_NUMPAD2 -> "Numpad2"
      [] event.VKey = VK_NUMPAD3 -> "Numpad3"
      [] event.VKey = VK_NUMPAD4 -> "Numpad4"
      [] event.VKey = VK_NUMPAD5 -> "Numpad5"
      [] event.VKey = VK_NUMPAD6 -> "Numpad6"
      [] event.VKey = VK_NUMPAD7 -> "Numpad7"
      [] event.VKey = VK_NUMPAD8 -> "Numpad8"
      [] event.VKey = VK_NUMPAD9 -> "Numpad9"
      [] event.VKey = VK_MULTIPLY -> "NumpadMultiply"
      [] event.VKey = VK_ADD -> "NumpadAdd"
      [] event.VKey = VK_SUBTRACT -> "NumpadSubtract"
      [] event.VKey = VK_DECIMAL -> "NumpadDecimal"
      [] event.VKey = VK_DIVIDE -> "NumpadDivide"
      [] OTHER -> NoKey

compute_key_reads_e1(event) == key_of_vkey(event, BitAnd(event.Flags, RI_KEY_E1) # 0)

compute_key_shift_side_from_e0(event) ==
    IF event.VKey = VK_SHIFT
    THEN IF BitAnd(event.Flags, RI_KEY_E0) # 0 THEN "RightShift" ELSE "LeftShift"
    ELSE key_of_vkey(event, BitAnd(event.Flags, RI_KEY_E0) # 0)

\* compute_key: e0 is read from the sample's flags, then the match
compute_key(event) == key_of_vkey(event, BitAnd(event.Flags, RI_KEY_E0) # 0)

make_keycode_swaps_prefixes(keyboard) ==
    [code |-> keyboard.MakeCode,
     extended_flags |->
         (IF BitAnd(keyboard.Flags, RI_KEY_E0) # 0 THEN 2 ELSE 0)
       + (IF BitAnd(keyboard.Flags, RI_KEY_E1) # 0 THEN 1 ELSE 0)]

\* make_keycode
make_keycode(keyboard) ==
    [code |-> keyboard.MakeCode,
     extended_flags |->
         (IF BitAnd(keyboard.Flags, RI_KEY_E0) # 0 THEN 1 ELSE 0)
       + (IF BitAnd(keyboard.Flags, RI_KEY_E1) # 0 THEN 2 ELSE 0)]

KeyboardKeyEvent_unmasked_flags(device, keyboard) ==
    [type |-> "KeyboardKey",
     device |-> device,
     code |-> make_keycode(keyboard),
     pressed |-> keyboard.Flags = RI_KEY_MAKE,
     key |-> compute_key(keyboard)]

\* The KeyboardKey event handle_keyboard_event builds

KeyboardKeyEvent(device, keyboard) ==
    [type |-> "KeyboardKey",
     device |-> device,
     code |-> make_keycode(keyboard),
     pressed |-> BitAnd(keyboard.Flags, RI_KEY_BREAK) = RI_KEY_MAKE,
     key |-> compute_key(keyboard)]

handle_keyboard_event_sends_fake(device, keyboard, st) ==
    <<send_event(st, KeyboardKeyEvent(device, keyboard))>>

handle_keyboard_event_drops_unmapped(device, keyboard, st) ==
    IF keyboard.VKey = FakeVKey \/ compute_key(keyboard) = NoKey THEN <<>>
    ELSE <<send_event(st, KeyboardKeyEvent(device, keyboard))>>

\* handle_keyboard_event: the deliveries made for one RAWKEYBOARD
handle_keyboard_event(device, keyboard, st) ==
    IF keyboard.VKey = FakeVKey THEN <<>>
    ELSE <<send_event(st, KeyboardKeyEvent(device, keyboard))>>

When(cond, delivery) == IF cond THEN <<delivery>> ELSE <<>>

MouseButtonEvent(device, button, pressed) ==
    [type |-> "MouseButton", device |-> device, button |-> button, pressed |-> pressed]

\* crate::MouseButton::LEFT / MIDDLE / RIGHT
LEFT == 0
MIDDLE == 1
RIGHT == 2

\* delta / WHEEL_DELTA as a fraction; 0.0 is Ratio(0, 1)
Ratio(n, d) == [num |-> n, den |-> d]

MouseWheelEvent(device, dx, dy) ==
    [type |-> "MouseWheel", device |-> device, dx |-> dx, dy |-> dy]

\* handle_mouse_event, the relative-motion part
mouse_motion_needs_both_deltas(device, mouse, st) ==
    When(BitAnd(mouse.usFlags, MOUSE_MOVE_ABSOLUTE) = MOUSE_MOVE_RELATIVE
           /\ (mouse.lLastX # 0 /\ mouse.lLastY # 0),
         send_event(st, [type |-> "MouseMoved", device |-> device,
                         dx |-> mouse.lLastX, dy |-> mouse.lLastY]))

\* handle_mouse_event, the motion part: `as f64` of an i32 keeps the value

mouse_motion(device, mouse, st) ==
    When(BitAnd(mouse.usFlags, MOUSE_MOVE_ABSOLUTE) = MOUSE_MOVE_RELATIVE
           /\ (mouse.lLastX # 0 \/ mouse.lLastY # 0),
         send_event(st, [type |-> "MouseMoved", device |-> device,
                         dx |-> mouse.lLastX, dy |-> mouse.lLastY]))

mouse_wheel_unsigned(device, mouse, st) ==
    LET btnflags == mouse.usButtonFlags
        delta == mouse.usButtonData
    IN  When(BitAnd(btnflags, RI_MOUSE_WHEEL) # 0,
             send_event(st, MouseWheelEvent(device, Ratio(0, 1), Ratio(delta, WHEEL_DELTA))))
     \o When(BitAnd(btnflags, RI_MOUSE_HWHEEL) # 0,
             send_event(st, MouseWheelEvent(device, Ratio(delta, WHEEL_DELTA), Ratio(0, 1))))

\* handle_mouse_event, the two wheel parts
mouse_wheel(device, mouse, st) ==
    LET btnflags == mouse.usButtonFlags
        delta == AsI16(mouse.usButtonData)
    IN  When(BitAnd(btnflags, RI_MOUSE_WHEEL) # 0,
             send_event(st, MouseWheelEvent(device, Ratio(0, 1), Ratio(delta, WHEEL_DELTA))))
     \o When(BitAnd(btnflags, RI_MOUSE_HWHEEL) # 0,
             send_event(st, MouseWheelEvent(device, Ratio(delta, WHEEL_DELTA), Ratio(0, 1))))

mouse_button(device, btnflags, st, down, up, button) ==
       When(BitAnd(btnflags, down) # 0, send_event(st, MouseButtonEvent(device, button, TRUE)))
    \o When(BitAnd(btnflags, up) # 0, send_event(st, MouseButtonEvent(device, button, FALSE)))

handle_mouse_event_in_bit_order(device, mouse, st) ==
    LET btnflags == mouse.usButtonFlags IN
       mouse_motion(device, mouse, st)
    \o mouse_button(device, btnflags, st, RI_MOUSE_LEFT_BUTTON_DOWN, RI_MOUSE_LEFT_BUTTON_UP, LEFT)
    \o mouse_button(device, btnflags, st, RI_MOUSE_RIGHT_BUTTON_DOWN, RI_MOUSE_RIGHT_BUTTON_UP, RIGHT)
    \o mouse_button(device, btnflags, st, RI_MOUSE_MIDDLE_BUTTON_DOWN, RI_MOUSE_MIDDLE_BUTTON_UP, MIDDLE)
    \o mouse_button(device, btnflags, st, RI_MOUSE_BUTTON_4_DOWN, RI_MOUSE_BUTTON_4_UP, 4)
    \o mouse_button(device, btnflags, st, RI_MOUSE_BUTTON_5_DOWN, RI_MOUSE_BUTTON_5_UP, 5)
    \o mouse_wheel(device, mouse, st)

\* handle_mouse_event: the deliveries made for one RAWMOUSE, in program order
handle_mouse_event(device, mouse, st) ==
    LET btnflags == mouse.usButtonFlags IN
       mouse_motion(device, mouse, st)
    \o When(BitAnd(btnflags, RI_MOUSE_LEFT_BUTTON_DOWN) # 0,
            send_event(st, MouseButtonEvent(device, LEFT, TRUE)))
    \o When(BitAnd(btnflags, RI_MOUSE_LEFT_BUTTON_UP) # 0,
            send_event(st, MouseButtonEvent(device, LEFT, FALSE)))
    \o When(BitAnd(btnflags, RI_MOUSE_MIDDLE_BUTTON_DOWN) # 0,
            send_event(st, MouseButtonEvent(device, MIDDLE, TRUE)))
    \o When(BitAnd(btnflags, RI_MOUSE_MIDDLE_BUTTON_UP) # 0,
            send_event(st, MouseButtonEvent(device, MIDDLE, FALSE)))
    \o When(BitAnd(btnflags, RI_MOUSE_RIGHT_BUTTON_DOWN) # 0,
            send_event(st, MouseButtonEvent(device, RIGHT, TRUE)))
    \o When(BitAnd(btnflags, RI_MOUSE_RIGHT_BUTTON_UP) # 0,
            send_event(st, MouseButtonEvent(device, RIGHT, FALSE)))
    \o When(BitAnd(btnflags, RI_MOUSE_BUTTON_4_DOWN) # 0,
            send_event(st, MouseButtonEvent(device, 4, TRUE)))
    \o When(BitAnd(btnflags, RI_MOUSE_BUTTON_4_UP) # 0,
            send_event(st, MouseButtonEvent(device, 4, FALSE)))
    \o When(BitAnd(btnflags, RI_MOUSE_BUTTON_5_DOWN) # 0,
            send_event(st, MouseButtonEvent(device, 5, TRUE)))
    \o When(BitAnd(btnflags, RI_MOUSE_BUTTON_5_UP) # 0,
            send_event(st, MouseButtonEvent(device, 5, FALSE)))
    \o mouse_wheel(device, mouse, st)

\* What an HRAWINPUT designates: whether GetRawInputData succeeds, the header and
\* the fields of the keyboard / mouse member the decoder reads.
RawInput(ok, type, dev, vkey, make, flags, usflags, x, y, btnflags, btndata) ==
    [ok |-> ok, dwType |-> type, hDevice |-> dev,
     VKey |-> vkey, MakeCode |-> make, Flags |-> flags,
     usFlags |-> usflags, lLastX |-> x, lLastY |-> y,
     usButtonFlags |-> btnflags, usButtonData |-> btndata]

\* lparam designates no raw input: GetRawInputData fails
NoRaw == RawInput(FALSE, 2, 0, 0, 0, 0, 0, 0, 0, 0, 0)

RawKeyboard(dev, vkey, make, flags) ==
    RawInput(TRUE, RIM_TYPEKEYBOARD, dev, vkey, make, flags, 0, 0, 0, 0, 0)

RawMouse(dev, usflags, x, y, btnflags, btndata) ==
    RawInput(TRUE, RIM_TYPEMOUSE, dev, 0, 0, 0, usflags, x, y, btnflags, btndata)

handle_raw_input_without_device(rawinput, st) ==
    IF ~rawinput.ok THEN <<>>
    ELSE IF rawinput.dwType = RIM_TYPEKEYBOARD
    THEN handle_keyboard_event(0, rawinput, st)
    ELSE IF rawinput.dwType = RIM_TYPEMOUSE
    THEN handle_mouse_event(0, rawinput, st)
    ELSE <<>>

\* handle_raw_input with read_rawinput
handle_raw_input(rawinput, st) ==
    IF ~rawinput.ok THEN <<>>
    ELSE IF rawinput.dwType = RIM_TYPEKEYBOARD
    THEN handle_keyboard_event(rawinput.hDevice, rawinput, st)
    ELSE IF rawinput.dwType = RIM_TYPEMOUSE
    THEN handle_mouse_event(rawinput.hDevice, rawinput, st)
    ELSE <<>>

(***************************************************************************)
(* The native callback (wndproc.rs).                                        *)
(***************************************************************************)
\* A message: msg names the message identifier; raw is what lparam designates
\* when msg is WM_INPUT; lparam is given as a small number.
Message(msg, wparam, lparam, raw) ==
    [msg |-> msg, wparam |-> wparam, lparam |-> LParam(lparam), raw |-> raw]

default_wndproc_forwards_close(m) == TRUE

\* default_wndproc: TRUE iff the message is handed to DefWindowProcW
default_wndproc(m) == m.msg # "WM_CLOSE"

\* get_handler_in_userdata and wndproc: st is what the stored pointer designates.
\* The result is the State after the call, the deliveries made and whether
\* DefWindowProcW was called.
wndproc(st, ud, m) ==
    IF ud = 0
    THEN [st |-> st, sent |-> <<>>, def |-> default_wndproc(m)]
    ELSE LET r ==
             CASE m.msg = "WM_CLOSE" ->
                    [st |-> st, sent |-> <<send_event(st, [type |-> "CloseRequested"])>>]
               [] m.msg = "WM_SIZE" ->
                    [st |-> st,
                     sent |-> <<send_event(st,
                         [type |-> "Resized",
                          width |-> AsU16(m.lparam),
                          height |-> AsU16(Sar16(m.lparam))])>>]
               [] m.msg = "WM_MOVE" ->
                    [st |-> st,
                     sent |-> <<send_event(st,
                         [type |-> "Moved",
                          x |-> AsI16(AsU16(m.lparam)),
                          y |-> AsI16(AsU16(Sar16(m.lparam)))])>>]
               [] m.msg = "WM_MOUSEMOVE" ->
                    [st |-> st,
                     sent |-> <<send_event(st,
                         [type |-> "CursorMoved",
                          x |-> AsI16(AsU16(m.lparam)),
                          y |-> AsI16(AsU16(Sar16(m.lparam)))])>>]
               [] m.msg = "WM_INPUT" ->
                    [st |-> st, sent |-> handle_raw_input(m.raw, st)]
               [] m.msg = "WM_CHAR" ->
                    take_u16_code_point(st, m.wparam % 65536)
               [] OTHER -> [st |-> st, sent |-> <<>>]
         IN [st |-> r.st, sent |-> r.sent, def |-> default_wndproc(m)]

\* One wndproc invocation as the latest step made it: the message, the closure of
\* the poll call in progress (0: none), what the stored pointer designated ("null",
\* or the allocation's status), the State before and after, the deliveries, whether
\* DefWindowProcW was called, and whether the call was left by a panic of the
\* caller's closure.
Call(m, h, ud, alloc, before, r, unwound) ==
    [msg |-> m,
     during |-> h,
     state |-> IF ud = 0 THEN "null" ELSE alloc,
     before |-> before,
     after |-> r.st,
     sent |-> r.sent,
     def |-> r.def,
     unwound |-> unwound]

\* The callback run on each message of msgs in turn
RECURSIVE RunCalls(_, _, _, _, _)
RunCalls(st, h, ud, alloc, msgs) ==
    IF msgs = <<>> THEN [st |-> st, calls |-> <<>>]
    ELSE LET r == wndproc(st, ud, Head(msgs))
             rest == RunCalls(r.st, h, ud, alloc, Tail(msgs))
         IN [st |-> rest.st,
             calls |-> <<Call(Head(msgs), h, ud, alloc, st, r, FALSE)>> \o rest.calls]

SeqsUpTo(S, n) == UNION {[1..k -> S] : k \in 0..n}

(***************************************************************************)
(* Messages the platform delivers in the model.                             *)
(***************************************************************************)
Plain(msg, wparam, lparam) == Message(msg, wparam, lparam, NoRaw)

\* lparam of WM_SIZE: 800 x 600
SizeParam == 600 * 65536 + 800

PostedMessages ==
    { Plain("WM_CLOSE", 0, 0),
      Plain("WM_CHAR", 65, 0),
      Plain("WM_CHAR", 56832, 0),
      Plain("WM_PAINT", 0, 0),
      Message("WM_INPUT", 0, 0, RawMouse(2, 0, 3, -2, 1, 0)) }

\* Messages ShowWindow and DestroyWindow send straight to the callback
SentMessages ==
    { Plain("WM_SHOWWINDOW", 1, 0),
      Plain("WM_SIZE", 0, SizeParam) }

DestroyMessages == << Plain("WM_DESTROY", 0, 0), Plain("WM_NCDESTROY", 0, 0) >>

\* What a read through a pointer to a freed State may yield
FreedStates ==
    [handler_fn : {"default_state_handler", "handler_fn"},
     handler_state : 0..NumHandlers,
     low_surrogate : {0, 56832}]

(***************************************************************************)
(* Window styles (hwnd.rs, bitflags WindowStyles; window.rs,                *)
(* make_window_styles).                                                     *)
(***************************************************************************)
\* A style word is modelled by the set of the positions of its set bits
\* (bit 0 is the least significant), a WindowStyles value by those of its u64.
WS_VISIBLE == {28}
WS_CAPTION == {22, 23}
WS_BORDER == {23}
WS_SYSMENU == {19}
WS_POPUP == {31}
WS_SIZEBOX == {18}
WS_MAXIMIZEBOX == {16}
WS_MINIMIZEBOX == {17}
WS_EX_TOPMOST == {3}
WS_EX_ACCEPTFILES == {4}

\* `a | b`
BitOr(a, b) == a \cup b

\* `x >> n` of an unsigned value: the low n bits are shifted out
Shr(x, n) == { b - n : b \in { c \in x : c >= n } }

\* `x as u32`
AsU32(x) == { b \in x : b < 32 }

\* The flags of WindowStyles, a u64
VISIBLE == WS_VISIBLE
TOPMOST == Shr(WS_EX_TOPMOST, 32)
CAPTION == BitOr(WS_CAPTION, WS_BORDER)
SYSMENU == WS_SYSMENU
BORDER == WS_POPUP
SIZE_BOX == WS_SIZEBOX
MAXIMIZE_BOX == WS_MAXIMIZEBOX
MINIMIZE_BOX == WS_MINIMIZEBOX
ACCEPT_FILES == Shr(WS_EX_ACCEPTFILES, 32)

\* WindowStyles::to_raw_styles: (bits as u32, (bits >> 32) as u32)
to_raw_styles(bits) ==
    [style |-> AsU32(bits), ex_style |-> AsU32(Shr(bits, 32))]

\* A Config without its title; position and size are "None" or "Some"
Configs ==
    [position : {"None", "Some"}, size : {"None", "Some"},
     visible : BOOLEAN, resizable : BOOLEAN,
     always_on_top : BOOLEAN, decorations : BOOLEAN]

\* impl Default for Config
DefaultConfig ==
    [position |-> "None", size |-> "None", visible |-> TRUE, resizable |-> TRUE,
     always_on_top |-> FALSE, decorations |-> TRUE]

\* The part of make_window_styles before the test of config.decorations
common_styles(cfg) ==
    LET accept == BitOr({}, ACCEPT_FILES)
        visible == IF cfg.visible THEN BitOr(accept, VISIBLE) ELSE accept
    IN IF cfg.always_on_top THEN BitOr(visible, TOPMOST) ELSE visible

make_window_styles_resizable_outside(cfg) ==
    LET styles == common_styles(cfg)
        sized == IF cfg.resizable
                 THEN BitOr(styles, BitOr(MAXIMIZE_BOX, SIZE_BOX)) ELSE styles
    IN IF cfg.decorations
       THEN BitOr(sized, BitOr(CAPTION, BitOr(SYSMENU, MINIMIZE_BOX)))
       ELSE BitOr(sized, BORDER)

make_window_styles_ignores_resizable(cfg) ==
    LET styles == common_styles(cfg) IN
    IF cfg.decorations
    THEN BitOr(BitOr(styles, BitOr(CAPTION, BitOr(SYSMENU, MINIMIZE_BOX))),
               BitOr(MAXIMIZE_BOX, SIZE_BOX))
    ELSE BitOr(styles, BORDER)

\* make_window_styles
make_window_styles(cfg) ==
    LET styles == common_styles(cfg) IN
    IF cfg.decorations
    THEN LET decorated == BitOr(styles, BitOr(CAPTION, BitOr(SYSMENU, MINIMIZE_BOX)))
         IN IF cfg.resizable
            THEN BitOr(decorated, BitOr(MAXIMIZE_BOX, SIZE_BOX))
            ELSE decorated
    ELSE BitOr(styles, BORDER)

(***************************************************************************)
(* Window (window.rs) and Hwnd (hwnd.rs).                                   *)
(***************************************************************************)
\* One call to the platform as the log records it; fails holds the calls the
\* platform fails when they are made
PlatformCall(name, fails) == [call |-> name, ok |-> name \notin fails]

FallibleCalls ==
    { "AdjustWindowRectEx", "GetModuleHandleW", "RegisterClassExW", "CreateWindowExW",
      "SetWindowLongW(GWL_EXSTYLE)", "SetWindowLongW(GWL_STYLE)",
      "RegisterRawInputDevices", "SetWindowLongPtrW(GWLP_USERDATA)",
      "DestroyWindow", "UnregisterClassW" }

\* Hwnd::new creates the window with style 0 and extended style 0
NoStyles == [style |-> {}, ex_style |-> {}]

\* Messages the platform sends to the callback from CreateWindowExW and from a
\* SetWindowLongW that changes a style word
CreateMessages == << Plain("WM_NCCREATE", 0, 0), Plain("WM_CREATE", 0, 0) >>

StyleMessages == << Plain("WM_STYLECHANGING", 0, 0), Plain("WM_STYLECHANGED", 0, 0) >>

\* Messages that may reach the callback while the native window exists and
\* GWLP_USERDATA is still 0
EarlyMessages ==
    { Plain("WM_CLOSE", 0, 0), Plain("WM_SIZE", 0, SizeParam), Plain("WM_CHAR", 65, 0) }

\* WindowStyles::client_to_window_size, called when config.size is Some
client_to_window_size(cfg, fails) ==
    IF cfg.size = "Some"
    THEN [ok |-> "AdjustWindowRectEx" \notin fails,
          log |-> <<PlatformCall("AdjustWindowRectEx", fails)>>]
    ELSE [ok |-> TRUE, log |-> <<>>]

\* WindowClass::new: get_current_hinstance()?, then RegisterClassExW
WindowClass_new(fails) ==
    IF "GetModuleHandleW" \in fails
    THEN [ok |-> FALSE, log |-> <<PlatformCall("GetModuleHandleW", fails)>>]
    ELSE [ok |-> "RegisterClassExW" \notin fails,
          log |-> <<PlatformCall("GetModuleHandleW", fails),
                    PlatformCall("RegisterClassExW", fails)>>]

\* Drop for WindowClass; the platform does not unregister a class that still
\* has a window
WindowClass_drop(fails, window) ==
    LET ok == "UnregisterClassW" \notin fails /\ window # "live"
    IN [log |-> <<[call |-> "UnregisterClassW", ok |-> ok]>>,
        class |-> IF ok THEN "unregistered" ELSE "registered"]

\* Hwnd::new: WindowClass::new(wndproc)?, then CreateWindowExW; when that
\* returns 0 the local `class` is dropped
Hwnd_new(fails) ==
    LET c == WindowClass_new(fails)
        d == WindowClass_drop(fails, "none")
    IN IF ~c.ok
       THEN [ok |-> FALSE, log |-> c.log, class |-> "none", hwnd |-> "none", msgs |-> <<>>]
       ELSE IF "CreateWindowExW" \in fails
       THEN [ok |-> FALSE,
             log |-> c.log \o <<PlatformCall("CreateWindowExW", fails)>> \o d.log,
             class |-> d.class, hwnd |-> "none", msgs |-> <<>>]
       ELSE [ok |-> TRUE,
             log |-> c.log \o <<PlatformCall("CreateWindowExW", fails)>>,
             class |-> "registered", hwnd |-> "live", msgs |-> CreateMessages]

Hwnd_drop_keeps_class(fails) ==
    LET destroyed == "DestroyWindow" \notin fails
        window == IF destroyed THEN "destroyed" ELSE "live"
    IN [log |-> <<[call |-> "DestroyWindow", ok |-> destroyed]>>,
        hwnd |-> window, class |-> "registered",
        msgs |-> IF destroyed THEN DestroyMessages ELSE <<>>]

\* Drop for Hwnd, then for its field `class`: DestroyWindow sends WM_DESTROY and
\* WM_NCDESTROY to the callback; its result is not looked at
Hwnd_drop(fails) ==
    LET destroyed == "DestroyWindow" \notin fails
        window == IF destroyed THEN "destroyed" ELSE "live"
        d == WindowClass_drop(fails, window)
    IN [log |-> <<[call |-> "DestroyWindow", ok |-> destroyed]>> \o d.log,
        hwnd |-> window, class |-> d.class,
        msgs |-> IF destroyed THEN DestroyMessages ELSE <<>>]

set_styles_style_first(styles, fails) ==
    LET raw == to_raw_styles(styles)
        a == "SetWindowLongW(GWL_EXSTYLE)" \notin fails
        b == "SetWindowLongW(GWL_STYLE)" \notin fails
    IN [ok |-> a /\ b,
        log |-> <<PlatformCall("SetWindowLongW(GWL_STYLE)", fails),
                  PlatformCall("SetWindowLongW(GWL_EXSTYLE)", fails)>>,
        gwl |-> [style |-> IF b THEN raw.style ELSE {},
                 ex_style |-> IF a THEN raw.ex_style ELSE {}],
        words |-> (IF b THEN <<[style |-> raw.style, ex_style |-> {}]>> ELSE <<>>)
               \o (IF a THEN <<[style |-> IF b THEN raw.style ELSE {},
                                ex_style |-> raw.ex_style]>> ELSE <<>>),
        msgs |-> (IF b THEN StyleMessages ELSE <<>>) \o (IF a THEN StyleMessages ELSE <<>>)]

set_styles_or(styles, fails) ==
    LET raw == to_raw_styles(styles)
        a == "SetWindowLongW(GWL_EXSTYLE)" \notin fails
        b == "SetWindowLongW(GWL_STYLE)" \notin fails
    IN [ok |-> a \/ b,
        log |-> <<PlatformCall("SetWindowLongW(GWL_EXSTYLE)", fails),
                  PlatformCall("SetWindowLongW(GWL_STYLE)", fails)>>,
        gwl |-> [style |-> IF b THEN raw.style ELSE {},
                 ex_style |-> IF a THEN raw.ex_style ELSE {}],
        words |-> (IF a THEN <<[style |-> {}, ex_style |-> raw.ex_style]>> ELSE <<>>)
               \o (IF b THEN <<[style |-> raw.style,
                                ex_style |-> IF a THEN raw.ex_style ELSE {}]>> ELSE <<>>),
        msgs |-> (IF a THEN StyleMessages ELSE <<>>) \o (IF b THEN StyleMessages ELSE <<>>)]

\* Hwnd::set_styles: the extended style word is written first, the style word is
\* written whatever the first write returned, and the result is a.and(b)
set_styles(styles, fails) ==
    LET raw == to_raw_styles(styles)
        a == "SetWindowLongW(GWL_EXSTYLE)" \notin fails
        b == "SetWindowLongW(GWL_STYLE)" \notin fails
    IN [ok |-> a /\ b,
        log |-> <<PlatformCall("SetWindowLongW(GWL_EXSTYLE)", fails),
                  PlatformCall("SetWindowLongW(GWL_STYLE)", fails)>>,
        gwl |-> [style |-> IF b THEN raw.style ELSE {},
                 ex_style |-> IF a THEN raw.ex_style ELSE {}],
        words |-> (IF a THEN <<[style |-> {}, ex_style |-> raw.ex_style]>> ELSE <<>>)
               \o (IF b THEN <<[style |-> raw.style,
                                ex_style |-> IF a THEN raw.ex_style ELSE {}]>> ELSE <<>>),
        msgs |-> (IF a THEN StyleMessages ELSE <<>>) \o (IF b THEN StyleMessages ELSE <<>>)]

\* Hwnd::enable_raw_input
enable_raw_input(fails) ==
    [ok |-> "RegisterRawInputDevices" \notin fails,
     log |-> <<PlatformCall("RegisterRawInputDevices", fails)>>]

set_userdata_twice(fails) ==
    [ok |-> "SetWindowLongPtrW(GWLP_USERDATA)" \notin fails,
     log |-> <<PlatformCall("SetWindowLongPtrW(GWLP_USERDATA)", fails),
               PlatformCall("SetWindowLongPtrW(GWLP_USERDATA)", fails)>>]

\* Hwnd::set_userdata with the address of the boxed State
set_userdata(fails) ==
    [ok |-> "SetWindowLongPtrW(GWLP_USERDATA)" \notin fails,
     log |-> <<PlatformCall("SetWindowLongPtrW(GWLP_USERDATA)", fails)>>]

\* Window::new: what it returns and what it leaves behind. early holds the
\* messages that reach the callback between CreateWindowExW and set_userdata
\* besides those the platform calls send themselves. A `?` that returns drops
\* the locals in reverse order of declaration: `state`, then `hwnd`.
Window_new(cfg, fails, early) ==
    LET styles == make_window_styles(cfg)
        size == client_to_window_size(cfg, fails)
        h == Hwnd_new(fails)
        st == set_styles(styles, fails)
        raw == enable_raw_input(fails)
        ud == set_userdata(fails)
        drop == Hwnd_drop(fails)
        msgs == h.msgs \o early \o st.msgs
        Ran(m) == RunCalls(DefaultState, 0, 0, "none", m).calls
        Dropped(made, alloc) ==
            [result |-> "Err", log |-> made \o drop.log,
             class |-> drop.class, hwnd |-> drop.hwnd, gwl |-> st.gwl,
             words |-> <<NoStyles>> \o st.words,
             state_alloc |-> alloc, userdata |-> 0, calls |-> Ran(msgs \o drop.msgs)]
    IN IF ~size.ok
       THEN [result |-> "Err", log |-> size.log,
             class |-> "none", hwnd |-> "none", gwl |-> NoStyles, words |-> <<>>,
             state_alloc |-> "none", userdata |-> 0, calls |-> <<>>]
       ELSE IF ~h.ok
       THEN [result |-> "Err", log |-> size.log \o h.log,
             class |-> h.class, hwnd |-> h.hwnd, gwl |-> NoStyles, words |-> <<>>,
             state_alloc |-> "none", userdata |-> 0, calls |-> <<>>]
       ELSE IF ~st.ok
       THEN Dropped(size.log \o h.log \o st.log, "none")
       ELSE IF ~raw.ok
       THEN Dropped(size.log \o h.log \o st.log \o raw.log, "none")
       ELSE IF ~ud.ok
       THEN Dropped(size.log \o h.log \o st.log \o raw.log \o ud.log, "freed")
       ELSE [result |-> "Ok",
             log |-> size.log \o h.log \o st.log \o raw.log \o ud.log,
             class |-> h.class, hwnd |-> h.hwnd, gwl |-> st.gwl,
             words |-> <<NoStyles>> \o st.words,
             state_alloc |-> "live", userdata |-> StatePtr, calls |-> Ran(msgs)]

\* The state some time after Window::new(Config::default()) returned Ok with
\* every platform call succeeding: class registered, native window created,
\* State boxed and its address stored in GWLP_USERDATA.
Constructed(posted) ==
    LET o == Window_new(DefaultConfig, {}, <<>>) IN
    /\ state = DefaultState
    /\ state_alloc = o.state_alloc
    /\ hwnd = o.hwnd
    /\ class = o.class
    /\ userdata = o.userdata
    /\ queue = posted
    /\ pc = "idle"
    /\ handler = 0
    /\ wait = "none"
    /\ returned = "none"
    /\ calls = <<>>
    /\ config = DefaultConfig
    /\ gwl = o.gwl
    /\ words = o.words
    /\ log = o.log
    /\ result = o.result

\* Before Window::new is called with the Config cfg
NotConstructed(cfg) ==
    /\ state = DefaultState
    /\ state_alloc = "none"
    /\ hwnd = "none"
    /\ class = "none"
    /\ userdata = 0
    /\ queue = <<>>
    /\ pc = "start"
    /\ handler = 0
    /\ wait = "none"
    /\ returned = "none"
    /\ calls = <<>>
    /\ config = cfg
    /\ gwl = NoStyles
    /\ words = <<>>
    /\ log = <<>>
    /\ result = "none"

\* Window::new(config)
new(fails, early) ==
    /\ pc = "start"
    /\ LET o == Window_new(config, fails, early) IN
       /\ result' = o.result
       /\ log' = o.log
       /\ class' = o.class
       /\ hwnd' = o.hwnd
       /\ gwl' = o.gwl
       /\ words' = o.words
       /\ state_alloc' = o.state_alloc
       /\ userdata' = o.userdata
       /\ calls' = o.calls
       /\ pc' = IF o.result = "Ok" THEN "idle" ELSE "failed"
    /\ UNCHANGED <<state, queue, handler, wait, returned, config>>

\* DefWindowProcW destroys the window when it is given WM_CLOSE
DefWindowProcW(window, cs) ==
    IF \E i \in DOMAIN cs : cs[i].msg.msg = "WM_CLOSE" /\ cs[i].def
    THEN "destroyed" ELSE window

\* The platform posts a message to the window's queue
PostMessage(m) ==
    /\ hwnd = "live"
    /\ pc \in {"idle", "get_messages", "peek_messages"}
    /\ Len(queue) < MaxQueue
    /\ queue' = Append(queue, m)
    /\ calls' = <<>>
    /\ UNCHANGED <<config, gwl, words, log, result, state, state_alloc, hwnd, class, userdata, pc, handler, wait, returned>>

\* Window::set_visible -> Hwnd::show_window: ShowWindow sends messages to the
\* callback before it returns
set_visible(msgs) ==
    /\ pc = "idle"
    /\ hwnd = "live"
    /\ LET r == RunCalls(state, handler, userdata, state_alloc, msgs)
       IN /\ state' = r.st
          /\ calls' = r.calls
          /\ hwnd' = DefWindowProcW(hwnd, r.calls)
    /\ UNCHANGED <<config, gwl, words, log, result, state_alloc, class, userdata, queue, pc, handler, wait, returned>>

\* Window::poll_events up to the loop: the guard borrows the State and the
\* handler is set
poll_events(h) ==
    /\ pc = "idle"
    /\ hwnd = "live"
    /\ state' = set_handler(state, h)
    /\ handler' = h
    /\ pc' = "peek_messages"
    /\ wait' = "none"
    /\ returned' = "none"
    /\ calls' = <<>>
    /\ UNCHANGED <<config, gwl, words, log, result, state_alloc, hwnd, class, userdata, queue>>

\* Window::blocking_poll_events up to the call of get_messages
blocking_poll_events(h) ==
    /\ pc = "idle"
    /\ hwnd = "live"
    /\ state' = set_handler(state, h)
    /\ handler' = h
    /\ pc' = "get_messages"
    /\ wait' = "none"
    /\ returned' = "none"
    /\ calls' = <<>>
    /\ UNCHANGED <<config, gwl, words, log, result, state_alloc, hwnd, class, userdata, queue>>

Dispatch_takes_last ==
    /\ queue # <<>>
    /\ LET r == RunCalls(state, handler, userdata, state_alloc, <<queue[Len(queue)]>>)
       IN /\ state' = r.st
          /\ calls' = r.calls
          /\ hwnd' = DefWindowProcW(hwnd, r.calls)
    /\ queue' = SubSeq(queue, 1, Len(queue) - 1)

Dispatch_keeps_message ==
    /\ queue # <<>>
    /\ LET r == RunCalls(state, handler, userdata, state_alloc, <<Head(queue)>>)
       IN /\ state' = r.st
          /\ calls' = r.calls
          /\ hwnd' = DefWindowProcW(hwnd, r.calls)
    /\ queue' = queue

\* TranslateMessage; DispatchMessageW on the head of the queue
Dispatch ==
    /\ queue # <<>>
    /\ LET r == RunCalls(state, handler, userdata, state_alloc, <<Head(queue)>>)
       IN /\ state' = r.st
          /\ calls' = r.calls
          /\ hwnd' = DefWindowProcW(hwnd, r.calls)
    /\ queue' = Tail(queue)

\* Hwnd::get_messages, GetMessageW returned a message: it is dispatched and the
\* result Ok(()) is dropped by `let _ =`
get_messages ==
    /\ pc = "get_messages"
    /\ Dispatch
    /\ wait' = "ok"
    /\ pc' = "peek_messages"
    /\ UNCHANGED <<config, gwl, words, log, result, state_alloc, class, userdata, handler, returned>>

\* Hwnd::get_messages, GetMessageW returned -1: Err(Error::last()) is the result,
\* and blocking_poll_events drops it by `let _ =` and goes on to the loop
get_messages_failed ==
    /\ pc = "get_messages"
    /\ wait' = "err"
    /\ pc' = "peek_messages"
    /\ calls' = <<>>
    /\ UNCHANGED <<config, gwl, words, log, result, state, state_alloc, hwnd, class, userdata, queue, handler, returned>>

\* Hwnd::get_messages, GetMessageW returned 0 (WM_QUIT): nothing is dispatched,
\* the result is Ok(()), and blocking_poll_events goes on to the loop
get_messages_quit ==
    /\ pc = "get_messages"
    /\ wait' = "quit"
    /\ pc' = "peek_messages"
    /\ calls' = <<>>
    /\ UNCHANGED <<config, gwl, words, log, result, state, state_alloc, hwnd, class, userdata, queue, handler, returned>>

\* Hwnd::peek_messages returned true: PeekMessageW removed a message and it was
\* dispatched; the loop goes round
peek_messages ==
    /\ pc = "peek_messages"
    /\ Dispatch
    /\ UNCHANGED <<config, gwl, words, log, result, state_alloc, class, userdata, pc, handler, wait, returned>>

\* Hwnd::peek_messages returned false: the loop ends, the poll function returns
\* unit, and HandlerGuard::drop removes the handler before the closure is dropped
poll_return ==
    /\ pc = "peek_messages"
    /\ queue = <<>>
    /\ state' = remove_handler(state)
    /\ handler' = 0
    /\ pc' = "idle"
    /\ returned' = "unit"
    /\ calls' = <<>>
    /\ UNCHANGED <<config, gwl, words, log, result, state_alloc, hwnd, class, userdata, queue, wait>>

\* The caller's closure panics on the first event a dispatched message delivers
\* to it. Every send_event of the callback precedes the writes of that call, so
\* the State is as before the call.
PanickingCall ==
    LET m == Head(queue)
        r == wndproc(state, userdata, m)
    IN Call(m, handler, userdata, state_alloc, state,
            [st |-> state, sent |-> <<Head(r.sent)>>, def |-> FALSE], TRUE)

HandlerWouldRun ==
    /\ pc \in {"get_messages", "peek_messages"}
    /\ queue # <<>>
    /\ wndproc(state, userdata, Head(queue)).sent # <<>>
    /\ Head(wndproc(state, userdata, Head(queue)).sent).to # 0

\* ... and the panic unwinds out of the poll function: HandlerGuard::drop runs
handler_unwinds ==
    /\ HandlerWouldRun
    /\ calls' = <<PanickingCall>>
    /\ queue' = Tail(queue)
    /\ state' = remove_handler(state)
    /\ handler' = 0
    /\ pc' = "idle"
    /\ returned' = "unwound"
    /\ UNCHANGED <<config, gwl, words, log, result, state_alloc, hwnd, class, userdata, wait>>

\* ... and the panic reaches the `extern "system"` boundary of wndproc and the
\* process aborts: nothing runs afterwards
handler_aborts ==
    /\ HandlerWouldRun
    /\ calls' = <<PanickingCall>>
    /\ queue' = Tail(queue)
    /\ pc' = "aborted"
    /\ UNCHANGED <<config, gwl, words, log, result, state, state_alloc, hwnd, class, userdata, handler, wait, returned>>

\* Dropping the Window drops its fields in declaration order: `state` first
\* (the Box<State> is freed) ...
drop_state ==
    /\ pc = "idle"
    /\ state_alloc' = "freed"
    /\ pc' = "drop_hwnd"
    /\ calls' = <<>>
    /\ UNCHANGED <<config, gwl, words, log, result, state, hwnd, class, userdata, queue, handler, wait, returned>>

drop_hwnd_class_first ==
    /\ pc = "drop_hwnd"
    /\ \E fails \in SUBSET {"DestroyWindow", "UnregisterClassW"} :
          LET c == WindowClass_drop(fails, hwnd)
              destroyed == "DestroyWindow" \notin fails
          IN /\ log' = log \o c.log \o <<[call |-> "DestroyWindow", ok |-> destroyed]>>
             /\ hwnd' = IF destroyed THEN "destroyed" ELSE hwnd
             /\ queue' = IF destroyed THEN <<>> ELSE queue
             /\ calls' = <<>>
    /\ pc' = "drop_class"
    /\ UNCHANGED <<config, gwl, words, result, state, state_alloc, class, userdata, handler, wait, returned>>

\* ... then `hwnd`: Hwnd::drop calls DestroyWindow, which sends WM_DESTROY and
\* WM_NCDESTROY to the callback and discards the queue. The callback forms its
\* reference from GWLP_USERDATA, which still holds the address of the State.
\* The result of DestroyWindow is not looked at.
drop_hwnd ==
    /\ pc = "drop_hwnd"
    /\ \E fails \in SUBSET {"DestroyWindow"} :
          LET d == Hwnd_drop(fails) IN
          /\ log' = Append(log, d.log[1])
          /\ hwnd' = d.hwnd
          /\ queue' = IF d.hwnd = "destroyed" THEN <<>> ELSE queue
          /\ \E seen \in IF state_alloc = "freed" THEN FreedStates ELSE {state} :
                calls' = RunCalls(seen, handler, userdata, state_alloc, d.msgs).calls
    /\ pc' = "drop_class"
    /\ UNCHANGED <<config, gwl, words, result, state, state_alloc, class, userdata, handler, wait, returned>>

\* ... then the fields of Hwnd: WindowClass::drop unregisters the class; the
\* result of UnregisterClassW is not looked at
drop_class ==
    /\ pc = "drop_class"
    /\ \E fails \in SUBSET {"UnregisterClassW"} :
          LET d == WindowClass_drop(fails, hwnd) IN
          /\ log' = log \o d.log
          /\ class' = d.class
    /\ pc' = "dropped"
    /\ calls' = <<>>
    /\ UNCHANGED <<config, gwl, words, result, state, state_alloc, hwnd, userdata, queue, handler, wait, returned>>

Next ==
    \/ \E m \in PostedMessages : PostMessage(m)
    \/ \E msgs \in SeqsUpTo(SentMessages, MaxSent) : set_visible(msgs)
    \/ \E h \in Handlers : poll_events(h)
    \/ \E h \in Handlers : blocking_poll_events(h)
    \/ get_messages
    \/ get_messages_failed
    \/ get_messages_quit
    \/ peek_messages
    \/ poll_return
    \/ handler_unwinds
    \/ handler_aborts
    \/ drop_state
    \/ drop_hwnd
    \/ drop_class

Init == Constructed(<<>>)

Spec == Init /\ [][Next]_vars

(***************************************************************************)
(* The decoders on their own: a window whose queue already holds the        *)
(* messages to decode, polled with one closure.                             *)
(***************************************************************************)
NextPoll ==
    \/ poll_events(1)
    \/ peek_messages
    \/ poll_return

\* UTF-16 code units around every boundary take_u16_code_point tests
Units ==
    { 0, 65, 233, 8364, 55295,
      55296, 55297, 55357, 55808, 56319,
      56320, 56321, 56832, 57000, 57343,
      57344, 65533, 65535 }

CharMessages == { Plain("WM_CHAR", u, 0) : u \in Units }

InitText ==
    \E q \in SeqsUpTo(CharMessages, MaxUnits) : q # <<>> /\ Constructed(q)

SpecText == InitText /\ [][NextPoll]_vars

\* Longer runs of units over a BMP character, a unit of 0xD800..0xDBFF and two
\* units of 0xDC00..0xDFFF: a unit is buffered, replaced, and then consumed
PendingUnits == {65, 55357, 56320, 56832}

InitPending ==
    \E q \in SeqsUpTo({ Plain("WM_CHAR", u, 0) : u \in PendingUnits }, MaxPending) :
        q # <<>> /\ Constructed(q)

SpecPending == InitPending /\ [][NextPoll]_vars

Devices == {1, 2}

KeyboardSamples ==
    { RawKeyboard(dev, vkey, make, flags) :
        dev \in Devices, vkey \in 0..255, make \in {30, 42, 54, 82}, flags \in 0..7 }

InitKeyboard ==
    \E s \in KeyboardSamples : Constructed(<<Message("WM_INPUT", 0, 0, s)>>)

SpecKeyboard == InitKeyboard /\ [][NextPoll]_vars

\* (usFlags, lLastX, lLastY): relative and still, relative and moving, absolute
Motions == { <<0, 0, 0>>, <<0, 3, -2>>, <<1, 3, -2>> }

MouseSamples ==
    { RawMouse(dev, mo[1], mo[2], mo[3], btnflags, btndata) :
        dev \in Devices, mo \in Motions, btnflags \in 0..4095, btndata \in {120, 65416} }

InitMouse ==
    \E s \in MouseSamples : Constructed(<<Message("WM_INPUT", 0, 0, s)>>)

SpecMouse == InitMouse /\ [][NextPoll]_vars

\* One raw mouse sample with every combination of the low two bits of usFlags
\* and of zero, positive and negative deltas, alone or with a button
\* transition and a wheel
MotionSamples ==
    { RawMouse(dev, usflags, x, y, btnflags, 120) :
        dev \in Devices, usflags \in 0..3, x \in {-2, 0, 3}, y \in {-2, 0, 3},
        btnflags \in {0, RI_MOUSE_LEFT_BUTTON_DOWN, RI_MOUSE_WHEEL,
                      RI_MOUSE_LEFT_BUTTON_DOWN + RI_MOUSE_WHEEL} }

InitMotion ==
    \E s \in MotionSamples : Constructed(<<Message("WM_INPUT", 0, 0, s)>>)

SpecMotion == InitMotion /\ [][NextPoll]_vars

\* Runs of raw samples from two devices: a key, a fake key, a mouse sample
\* with motion, a button transition and a wheel, and a mouse sample with a
\* wheel alone
DeviceSamples ==
    UNION { { RawKeyboard(dev, 65, 30, 0),
              RawKeyboard(dev, 255, 30, 0),
              RawMouse(dev, 0, 3, -2, RI_MOUSE_LEFT_BUTTON_DOWN + RI_MOUSE_WHEEL, 120),
              RawMouse(dev, 0, 0, 0, RI_MOUSE_HWHEEL, 65416) } : dev \in Devices }

InitDevices ==
    \E q \in SeqsUpTo({ Message("WM_INPUT", 0, 0, s) : s \in DeviceSamples }, MaxSamples) :
        q # <<>> /\ Constructed(q)

SpecDevices == InitDevices /\ [][NextPoll]_vars

\* One WM_SIZE, WM_MOVE or WM_MOUSEMOVE message whose LPARAM has every pair of
\* the low words below, with the upper 32 bits clear, partly set and all set
CoordWords == {0, 1, 800, 32767, 32768, 65535}

UpperWords == { <<0, 0>>, <<1, 0>>, <<65535, 65535>> }

CoordMessages ==
    { [Plain(msg, 0, 0) EXCEPT !.lparam = <<lo, hi>> \o up] :
        msg \in {"WM_SIZE", "WM_MOVE", "WM_MOUSEMOVE"},
        lo \in CoordWords, hi \in CoordWords, up \in UpperWords }

InitCoords == \E m \in CoordMessages : Constructed(<<m>>)

SpecCoords == InitCoords /\ [][NextPoll]_vars

(***************************************************************************)
(* The pump on its own: a window whose queue holds some messages and gets   *)
(* no new ones, polled in either mode. The thread that polls keeps running, *)
(* so the loop of the poll functions is weakly fair.                        *)
(***************************************************************************)
InitDrain == \E q \in SeqsUpTo(PostedMessages, MaxQueue) : Constructed(q)

NextDrain ==
    \/ \E h \in Handlers : poll_events(h)
    \/ \E h \in Handlers : blocking_poll_events(h)
    \/ get_messages
    \/ get_messages_failed
    \/ get_messages_quit
    \/ peek_messages
    \/ poll_return

SpecDrain ==
    InitDrain /\ [][NextDrain]_vars /\ WF_vars(peek_messages) /\ WF_vars(poll_return)

(***************************************************************************)
(* Creation: Window::new on every Config with every combination of failing  *)
(* platform calls, then set_visible and close requests polled with one      *)
(* closure, then drop.                                                      *)
(***************************************************************************)
InitCreate == \E cfg \in Configs : NotConstructed(cfg)

NextCreate ==
    \/ \E fails \in SUBSET FallibleCalls, early \in SeqsUpTo(EarlyMessages, MaxEarly) :
           new(fails, early)
    \/ PostMessage(Plain("WM_CLOSE", 0, 0))
    \/ \E msgs \in SeqsUpTo(SentMessages, MaxSent) : set_visible(msgs)
    \/ poll_events(1)
    \/ peek_messages
    \/ poll_return
    \/ drop_state
    \/ drop_hwnd
    \/ drop_class

SpecCreate == InitCreate /\ [][NextCreate]_vars

(***************************************************************************)
(* Properties.                                                              *)
(***************************************************************************)
InRange(x, lo, hi) == x >= lo /\ x <= hi

\* The callback invocations of the latest step that ran to completion on a
\* message of the given kind with a State attached
Completed(kind) ==
    { i \in DOMAIN calls :
        calls[i].msg.msg = kind /\ calls[i].state = "live" /\ ~calls[i].unwound }

Unit(c) == c.msg.wparam

\* The code point a pair of a unit in 0xD800..0xDBFF and a unit in 0xDC00..0xDFFF encodes
PairCodePoint(d8, dc) == 65536 + (d8 - 55296) * 1024 + (dc - 56320)

\* C1: a WM_CHAR unit L in 0xDC00..0xDFFF immediately followed by a unit H in
\* 0xD800..0xDBFF sends exactly one Text event, the code point of the pair, and
\* leaves the pending slot empty.
C1_LowThenHighSendsOneText ==
    \A i \in Completed("WM_CHAR") :
        LET c == calls[i] IN
        (InRange(c.before.low_surrogate, 56320, 57343) /\ InRange(Unit(c), 55296, 56319))
        => /\ Len(c.sent) = 1
           /\ c.sent[1].event = TextEvent(PairCodePoint(Unit(c), c.before.low_surrogate))
           /\ c.after.low_surrogate = 0

\* C2: whenever no poll call is in progress (before the first one, and after any
\* poll_events or blocking_poll_events returned or unwound, the blocking wait
\* failed or not), the handler slot holds the no-op handler.
C2_HandlerIsNoOpOutsidePoll ==
    pc = "idle" => state.handler_fn = "default_state_handler"

\* A blocking poll whose wait failed has returned
C2_ReturnedAfterFailedWait ==
    /\ pc = "idle"
    /\ returned = "unit"
    /\ wait = "err"
    /\ state.handler_state # 0

\* C3: every event the callback delivers goes to the closure of the poll call in
\* progress, and to no closure when no poll call is in progress (between poll
\* calls, in set_visible, in teardown).
C3_EventsOnlyToCurrentHandler ==
    \A i \in DOMAIN calls :
        \A j \in DOMAIN calls[i].sent : calls[i].sent[j].to = calls[i].during

\* An event is decoded while no poll call is in progress, after a closure had
\* been installed and removed
C3_EventBetweenPolls ==
    \E i \in DOMAIN calls :
        /\ calls[i].sent # <<>>
        /\ calls[i].during = 0
        /\ calls[i].before.handler_state # 0

\* C4: the callback never runs for a window whose stored pointer refers to a
\* State that has been freed.
C4_StateOutlivesNativeWindow ==
    \A i \in DOMAIN calls : calls[i].state # "freed"

\* C5: a blocking poll whose wait failed returns that failure to its caller.
C5_WaitFailureIsReturned ==
    (pc = "idle" /\ wait = "err" /\ returned # "unwound") => returned = "err"

\* C6: a unit in 0xD800..0xDBFF fed while the pending slot is empty sends no
\* event and leaves the State as it was, the pending slot empty.
C6_HighWithoutPendingIsDropped ==
    \A i \in Completed("WM_CHAR") :
        LET c == calls[i] IN
        (c.before.low_surrogate = 0 /\ InRange(Unit(c), 55296, 56319))
        => /\ c.sent = <<>>
           /\ c.after.low_surrogate = 0
           /\ c.after = c.before

C6_HighFedWithoutPending ==
    \E i \in Completed("WM_CHAR") :
        /\ calls[i].before.low_surrogate = 0
        /\ InRange(Unit(calls[i]), 55296, 56319)
        /\ state.low_surrogate = 0

\* C7: a non-surrogate unit u fed while a unit in 0xDC00..0xDFFF is pending sends
\* exactly one event, Text(u), to the installed handler, and empties the slot.
C7_NonSurrogateDiscardsPending ==
    \A i \in Completed("WM_CHAR") :
        LET c == calls[i] IN
        (InRange(c.before.low_surrogate, 56320, 57343) /\ ~InRange(Unit(c), 55296, 57343))
        => /\ c.sent = <<[to |-> c.during, event |-> TextEvent(Unit(c))]>>
           /\ c.after.low_surrogate = 0

C7_NonSurrogateFedWithPending ==
    \E i \in Completed("WM_CHAR") :
        /\ InRange(calls[i].before.low_surrogate, 56320, 57343)
        /\ ~InRange(Unit(calls[i]), 55296, 57343)
        /\ calls[i].during # 0
        /\ Len(calls[i].sent) = 1

IsKeyboard(c) == c.msg.raw.ok /\ c.msg.raw.dwType = RIM_TYPEKEYBOARD

IsMouse(c) == c.msg.raw.ok /\ c.msg.raw.dwType = RIM_TYPEMOUSE

\* C8: a raw keyboard sample whose virtual key is 255 delivers nothing, whatever
\* its scan code, flags and device, and leaves the State as it was.
C8_FakeKeyIsSkipped ==
    \A i \in Completed("WM_INPUT") :
        LET c == calls[i] IN
        (IsKeyboard(c) /\ c.msg.raw.VKey = 255)
        => /\ c.sent = <<>>
           /\ c.after = c.before

C8_FakeKeyDispatched ==
    \E i \in Completed("WM_INPUT") :
        /\ IsKeyboard(calls[i])
        /\ calls[i].msg.raw.VKey = 255
        /\ calls[i].msg.raw.MakeCode = 54
        /\ calls[i].msg.raw.Flags = 7
        /\ calls[i].during # 0

\* The fixed table of the duplicated navigation / numpad virtual keys
NavigationKey ==
    (VK_INSERT :> "Insert") @@ (VK_DELETE :> "Delete") @@ (VK_HOME :> "Home")
    @@ (VK_END :> "End") @@ (VK_PRIOR :> "PageUp") @@ (VK_NEXT :> "PageDown")
    @@ (VK_LEFT :> "Left") @@ (VK_UP :> "Up") @@ (VK_RIGHT :> "Right")
    @@ (VK_DOWN :> "Down")

NumpadKey ==
    (VK_INSERT :> "Numpad0") @@ (VK_DELETE :> "NumpadDecimal") @@ (VK_HOME :> "Numpad7")
    @@ (VK_END :> "Numpad1") @@ (VK_PRIOR :> "Numpad9") @@ (VK_NEXT :> "Numpad3")
    @@ (VK_LEFT :> "Numpad4") @@ (VK_UP :> "Numpad8") @@ (VK_RIGHT :> "Numpad6")
    @@ (VK_DOWN :> "Numpad2")

FlagSet(flags, bit) == (flags \div bit) % 2 = 1

\* C9: for a duplicated navigation / numpad virtual key the logical key of the one
\* KeyboardKey event is the navigation key when E0 is set and the numpad key when
\* it is clear, whatever the scan code, the E1 flag and the release flag.
C9_NavigationOrNumpadByE0 ==
    \A i \in Completed("WM_INPUT") :
        LET c == calls[i]
            kb == c.msg.raw
        IN (IsKeyboard(c) /\ kb.VKey \in DOMAIN NavigationKey)
           => /\ Len(c.sent) = 1
              /\ c.sent[1].event.type = "KeyboardKey"
              /\ c.sent[1].event.key =
                     IF FlagSet(kb.Flags, 2) THEN NavigationKey[kb.VKey]
                     ELSE NumpadKey[kb.VKey]

\* Insert / Numpad0 released with E1 set and E0 clear
C9_NumpadKeyWithE1 ==
    \E i \in Completed("WM_INPUT") :
        /\ IsKeyboard(calls[i])
        /\ calls[i].msg.raw.VKey = VK_INSERT
        /\ calls[i].msg.raw.Flags = 5
        /\ Len(calls[i].sent) = 1
        /\ calls[i].sent[1].event.key = "Numpad0"

\* (transition flag, button, pressed) in the order left, middle, right, 4, 5,
\* down before up
ButtonTransitions ==
    << <<1, 0, TRUE>>, <<2, 0, FALSE>>,
       <<16, 1, TRUE>>, <<32, 1, FALSE>>,
       <<4, 2, TRUE>>, <<8, 2, FALSE>>,
       <<64, 4, TRUE>>, <<128, 4, FALSE>>,
       <<256, 5, TRUE>>, <<512, 5, FALSE>> >>

ExpectedButtons(flags) ==
    LET set == SelectSeq(ButtonTransitions, LAMBDA t : FlagSet(flags, t[1]))
    IN [k \in 1..Len(set) |-> <<set[k][2], set[k][3]>>]

ButtonEvents(sent) ==
    LET b == SelectSeq(sent, LAMBDA d : d.event.type = "MouseButton")
    IN [k \in 1..Len(b) |-> <<b[k].event.button, b[k].event.pressed>>]

\* C10: the MouseButton events of one raw mouse sample are exactly one per set
\* transition flag, in the order left, middle, right, 4, 5 with down before up,
\* each pressed iff its flag is a down flag; left-down with right-up gives
\* (left, pressed) then (right, released).
C10_ButtonEventsInFixedOrder ==
    \A i \in Completed("WM_INPUT") :
        LET c == calls[i] IN
        IsMouse(c)
        => /\ ButtonEvents(c.sent) = ExpectedButtons(c.msg.raw.usButtonFlags)
           /\ \A j \in DOMAIN c.sent : c.sent[j].to = c.during
           /\ (c.msg.raw.usButtonFlags % 1024 = 9
               => ButtonEvents(c.sent) = << <<0, TRUE>>, <<2, FALSE>> >>)

\* A sample with every transition flag set
C10_AllTenTransitions ==
    \E i \in Completed("WM_INPUT") :
        /\ IsMouse(calls[i])
        /\ calls[i].msg.raw.usButtonFlags = 1023
        /\ Len(ButtonEvents(calls[i].sent)) = 10
        /\ calls[i].during # 0

\* The quotient n / d equals the integer k
RatioIs(r, k) == r.den # 0 /\ r.num = k * r.den

\* The 16-bit button data read as a two's complement integer
SignedData(data) == IF data >= 32768 THEN data - 65536 ELSE data

WheelEvents(sent) == SelectSeq(sent, LAMBDA d : d.event.type = "MouseWheel")

\* C11: a raw mouse sample with the vertical-wheel flag set sends one MouseWheel
\* event with dx = 0 and dy = d / 120, d being the button data read as a signed
\* 16-bit integer (120 gives 1, 65416 gives -1); one with the horizontal-wheel
\* flag set sends one MouseWheel event with dy = 0 and dx = d / 120; the
\* vertical event comes first and no other MouseWheel event is sent.
C11_WheelScaledByNotch ==
    \A i \in Completed("WM_INPUT") :
        LET c == calls[i]
            m == c.msg.raw
            d == SignedData(m.usButtonData)
            w == WheelEvents(c.sent)
            v == IF FlagSet(m.usButtonFlags, 1024) THEN 1 ELSE 0
            h == IF FlagSet(m.usButtonFlags, 2048) THEN 1 ELSE 0
        IN IsMouse(c)
           => /\ Len(w) = v + h
              /\ \A j \in DOMAIN w : w[j].to = c.during /\ w[j].event.device = m.hDevice
              /\ v = 1 => /\ RatioIs(w[1].event.dx, 0)
                          /\ w[1].event.dy.den = 120
                          /\ w[1].event.dy.num = d
                          /\ (m.usButtonData = 120 => RatioIs(w[1].event.dy, 1))
                          /\ (m.usButtonData = 65416 => RatioIs(w[1].event.dy, -1))
              /\ h = 1 => /\ RatioIs(w[v + 1].event.dy, 0)
                          /\ w[v + 1].event.dx.den = 120
                          /\ w[v + 1].event.dx.num = d
                          /\ (m.usButtonData = 120 => RatioIs(w[v + 1].event.dx, 1))
                          /\ (m.usButtonData = 65416 => RatioIs(w[v + 1].event.dx, -1))

\* A vertical wheel sample whose data 65416 is one notch backwards
C11_NegativeNotch ==
    \E i \in Completed("WM_INPUT") :
        /\ IsMouse(calls[i])
        /\ calls[i].msg.raw.usButtonFlags = 1024
        /\ calls[i].msg.raw.usButtonData = 65416
        /\ calls[i].during # 0
        /\ Len(calls[i].sent) = 1
        /\ calls[i].sent[1].event.type = "MouseWheel"
        /\ RatioIs(calls[i].sent[1].event.dy, -1)

Decorations == WS_CAPTION \cup WS_SYSMENU \cup WS_MINIMIZEBOX \cup WS_MAXIMIZEBOX \cup WS_SIZEBOX

C13_DecoratedStyles ==
    config.decorations
    => LET styles == make_window_styles(config) IN
       /\ (WS_CAPTION \cup WS_SYSMENU \cup WS_MINIMIZEBOX) \subseteq styles
       /\ config.resizable => (WS_MAXIMIZEBOX \cup WS_SIZEBOX) \subseteq styles
       /\ ~config.resizable => styles \cap (WS_MAXIMIZEBOX \cup WS_SIZEBOX) = {}
       /\ config = DefaultConfig => Decorations \subseteq styles
       /\ result = "Ok" => gwl.style = AsU32(styles)

\* A decorated window that is not resizable has been created
C13_DecoratedFixedSizeCreated ==
    /\ result = "Ok"
    /\ config.decorations
    /\ ~config.resizable
    /\ WS_MINIMIZEBOX \subseteq gwl.style
    /\ gwl.style \cap WS_MAXIMIZEBOX = {}

\* C14: every WM_CLOSE the callback is given, with a State attached or with
\* none, is not handed to DefWindowProcW, so the native window exists afterwards
\* unless the program itself has called DestroyWindow; with a State attached
\* exactly one CloseRequested event is sent, to the handler installed at the
\* time, and with none attached no event is sent.
C14_CloseNeverReachesDefault ==
    \A i \in DOMAIN calls :
        LET c == calls[i] IN
        c.msg.msg = "WM_CLOSE"
        => /\ ~c.def
           /\ hwnd = "live" \/ \E k \in DOMAIN log : log[k].call = "DestroyWindow"
           /\ c.state = "live"
              => /\ Len(c.sent) = 1
                 /\ c.sent[1].event.type = "CloseRequested"
                 /\ c.sent[1].to = c.during
           /\ c.state = "null" => c.sent = <<>>

\* A WM_CLOSE dispatched by a poll to a created window with a closure installed
C14_CloseDispatchedInPoll ==
    \E i \in DOMAIN calls :
        /\ calls[i].msg.msg = "WM_CLOSE"
        /\ calls[i].state = "live"
        /\ calls[i].during = 1
        /\ calls[i].sent # <<>>
        /\ hwnd = "live"
        /\ pc = "peek_messages"

\* C18: the extended-style word set_styles writes to the native window has the
\* topmost bit (WS_EX_TOPMOST) set if and only if config.always_on_top is true.
C18_TopmostBitFollowsAlwaysOnTop ==
    result = "Ok" => (WS_EX_TOPMOST \subseteq gwl.ex_style <=> config.always_on_top)

CreationCalls == FallibleCalls \ {"DestroyWindow", "UnregisterClassW"}

\* The calls Window::new makes when nothing fails, and the step each belongs to
CreationOrder(cfg) ==
    (IF cfg.size = "Some" THEN <<"AdjustWindowRectEx">> ELSE <<>>)
    \o << "GetModuleHandleW", "RegisterClassExW", "CreateWindowExW",
          "SetWindowLongW(GWL_EXSTYLE)", "SetWindowLongW(GWL_STYLE)",
          "RegisterRawInputDevices", "SetWindowLongPtrW(GWLP_USERDATA)" >>

StepOf ==
    ("AdjustWindowRectEx" :> "window size")
    @@ ("GetModuleHandleW" :> "class registration")
    @@ ("RegisterClassExW" :> "class registration")
    @@ ("CreateWindowExW" :> "native window creation")
    @@ ("SetWindowLongW(GWL_EXSTYLE)" :> "style application")
    @@ ("SetWindowLongW(GWL_STYLE)" :> "style application")
    @@ ("RegisterRawInputDevices" :> "raw-input subscription")
    @@ ("SetWindowLongPtrW(GWLP_USERDATA)" :> "state attachment")

CreationLog == SelectSeq(log, LAMBDA e : e.call \in CreationCalls)

\* C19: once Window::new has returned, the creation calls it made are a prefix of
\* window size, class registration, native window creation, style application,
\* raw-input subscription, state attachment in that order; it returned Err, and
\* no Window, exactly when one of them failed; no call of a later step follows a
\* failed call; and it returned Ok only after making all of them.
C19_CreationStopsAtFirstFailure ==
    result # "none"
    => LET made == CreationLog
           order == CreationOrder(config)
       IN /\ Len(made) <= Len(order)
          /\ \A i \in DOMAIN made : made[i].call = order[i]
          /\ (result = "Err") <=> (\E i \in DOMAIN made : ~made[i].ok)
          /\ result = "Err" => pc = "failed" /\ state_alloc # "live" /\ userdata = 0
          /\ result = "Ok" => Len(made) = Len(order)
          /\ \A i, j \in DOMAIN made :
                (i < j /\ ~made[i].ok) => StepOf[made[j].call] = StepOf[made[i].call]

\* The first style write failed, the second was still made, and nothing of the
\* later steps was: Window::new returned Err
C19_StyleApplicationFailed ==
    /\ result = "Err"
    /\ Len(CreationLog) >= 2
    /\ CreationLog[Len(CreationLog)].call = "SetWindowLongW(GWL_STYLE)"
    /\ CreationLog[Len(CreationLog)].ok
    /\ ~CreationLog[Len(CreationLog) - 1].ok

\* One turn of the loop `while self.hwnd.peek_messages() {}`: the head of the
\* queue is removed and dispatched once, or the queue is empty and the poll
\* function returns without running the callback
LoopTurn ==
    \/ /\ queue # <<>>
       /\ queue' = Tail(queue)
       /\ Len(calls') = 1
       /\ calls'[1].msg = Head(queue)
       /\ pc' = "peek_messages"
       /\ wait' = wait
    \/ /\ queue = <<>>
       /\ queue' = <<>>
       /\ calls' = <<>>
       /\ pc' = "idle"
       /\ returned' = "unit"

\* C15: poll_events never waits (in its loop a step is always possible); every
\* step of its loop dispatches the message at the head of the queue once, or
\* finds the queue empty and returns without running the callback; and, no
\* message being enqueued meanwhile, the call returns, so it has dispatched
\* exactly the queued messages and leaves the queue empty.
C15_NonBlockingPollDrains ==
    /\ []((pc = "peek_messages" /\ wait = "none") => ENABLED (peek_messages \/ poll_return))
    /\ [][(pc = "peek_messages" /\ wait = "none") => LoopTurn]_vars
    /\ ((pc = "peek_messages" /\ wait = "none")
            ~> (pc = "idle" /\ returned = "unit" /\ queue = <<>>))

\* poll_events has just dispatched the last queued message to the closure
C15_LastQueuedMessageDispatched ==
    /\ pc = "peek_messages"
    /\ wait = "none"
    /\ queue = <<>>
    /\ Len(calls) = 1
    /\ calls[1].during # 0

\* C16: a blocking poll that has returned to its caller obtained a message from
\* its blocking wait (a message that was dispatched, or WM_QUIT).
C16_ReturnsOnlyAfterMessageObtained ==
    (pc = "idle" /\ returned = "unit" /\ wait # "none") => wait \in {"ok", "quit"}

\* The steps of blocking_poll_events: the call does not return from its blocking
\* wait; a wait that obtains a message removes it and dispatches it exactly once
\* before anything else; a wait that fails or reports WM_QUIT dispatches
\* nothing; the loop that follows dispatches the remaining queued messages one
\* at a time and the call returns only when it finds the queue empty.
BlockingPollSteps ==
    /\ [][pc = "get_messages"
          => /\ pc' = "peek_messages"
             /\ \/ /\ wait' = "ok"
                   /\ queue # <<>>
                   /\ queue' = Tail(queue)
                   /\ Len(calls') = 1
                   /\ calls'[1].msg = Head(queue)
                \/ /\ wait' \in {"err", "quit"}
                   /\ queue' = queue
                   /\ calls' = <<>>]_vars
    /\ [][(pc = "peek_messages" /\ wait # "none") => LoopTurn]_vars
    /\ []((pc = "idle" /\ returned = "unit" /\ wait # "none") => queue = <<>>)

\* The calls to DestroyWindow and UnregisterClassW made so far, in order
ReleaseLog ==
    LET made == SelectSeq(log, LAMBDA e : e.call \in {"DestroyWindow", "UnregisterClassW"})
    IN [k \in DOMAIN made |-> made[k].call]

\* C17: dropping a Window that was created calls DestroyWindow once and then
\* UnregisterClassW once, in that order, and neither before; whatever the two
\* calls return, the teardown goes on to its end and what Window::new returned
\* is untouched; a DestroyWindow that succeeds leaves no native window.
C17_DestroyThenUnregisterOnce ==
    /\ pc \notin {"drop_class", "dropped"} => ReleaseLog = <<>>
    /\ pc = "drop_hwnd" => ENABLED drop_hwnd
    /\ pc = "drop_class" => ReleaseLog = <<"DestroyWindow">> /\ ENABLED drop_class
    /\ pc = "dropped" => ReleaseLog = <<"DestroyWindow", "UnregisterClassW">>
    /\ pc \in {"drop_hwnd", "drop_class", "dropped"} => result = "Ok"
    /\ \A k \in DOMAIN log :
          (log[k].call = "DestroyWindow" /\ log[k].ok) => hwnd = "destroyed"

\* The Window has been dropped, both calls having succeeded
C17_WindowDropped ==
    /\ pc = "dropped"
    /\ hwnd = "destroyed"
    /\ class = "unregistered"
    /\ Len(ReleaseLog) = 2

\* Virtual keys for which compute_key has no arm
NoTableEntry == (0..7) \cup {10, 11} \cup (58..64) \cup (136..143) \cup (180..254)

\* C20: a raw keyboard sample whose virtual key is not 255 sends exactly one
\* KeyboardKey event, carrying the device, the key identity (scan code with the
\* E0 / E1 flags) and whether it is a press; when the virtual key has no entry in
\* the table its logical key is absent; the callback returns and the loop of
\* the poll goes on.
C20_EveryRealKeySendsOneEvent ==
    \A i \in Completed("WM_INPUT") :
        LET c == calls[i]
            kb == c.msg.raw
        IN (IsKeyboard(c) /\ kb.VKey # 255)
           => /\ Len(c.sent) = 1
              /\ c.sent[1].to = c.during
              /\ c.sent[1].event.type = "KeyboardKey"
              /\ c.sent[1].event.device = kb.hDevice
              /\ c.sent[1].event.code =
                     [code |-> kb.MakeCode, extended_flags |-> (kb.Flags \div 2) % 4]
              /\ c.sent[1].event.pressed = (kb.Flags % 2 = 0)
              /\ kb.VKey \in NoTableEntry => c.sent[1].event.key = NoKey
              /\ c.after = c.before
              /\ pc = "peek_messages"

\* A key without a logical key, released, reached the closure
C20_UnmappedKeyDelivered ==
    \E i \in Completed("WM_INPUT") :
        /\ IsKeyboard(calls[i])
        /\ calls[i].msg.raw.VKey = 7
        /\ calls[i].msg.raw.Flags = 1
        /\ calls[i].during # 0
        /\ Len(calls[i].sent) = 1
        /\ calls[i].sent[1].event.key = NoKey
        /\ calls[i].sent[1].event.code.code = calls[i].msg.raw.MakeCode

\* C21: when a WM_CHAR unit in 0xD800..0xDBFF is dispatched with the pending slot
\* empty and the next message dispatched is a WM_CHAR unit in 0xDC00..0xDFFF, the
\* two calls together send exactly one Text event, to the closure of the poll,
\* whose character is 0x10000 + (first - 0xD800) * 0x400 + (second - 0xDC00).
C21_StandardOrderPairSendsOneText ==
    [][(/\ Len(calls) = 1
        /\ Len(calls') = 1
        /\ calls[1].msg.msg = "WM_CHAR"
        /\ calls'[1].msg.msg = "WM_CHAR"
        /\ calls[1].before.low_surrogate = 0
        /\ InRange(Unit(calls[1]), 55296, 56319)
        /\ InRange(Unit(calls'[1]), 56320, 57343))
       => calls[1].sent \o calls'[1].sent =
              << [to |-> calls'[1].during,
                  event |-> TextEvent(PairCodePoint(Unit(calls[1]), Unit(calls'[1])))] >>]_vars

\* The events of a sequence of deliveries, without their receiver
Events(sent) == [j \in DOMAIN sent |-> sent[j].event]

\* A State that holds nothing but the pending slot
OnlySlot(slot) == [DefaultState EXCEPT !.low_surrogate = slot]

\* C22: every step of a poll call that runs the callback retrieves exactly the
\* message at the head of the queue and runs the callback once on it, on the
\* State the previous step left; all the events of that message are delivered
\* in that step, to the closure of the poll, before the next message is
\* retrieved; and they, and the pending slot left behind, are those decoded
\* from the message and the pending slot alone. So the events of a poll call are
\* the concatenation, in dequeue order, of the events of its messages.
C22_EventsInDequeueOrder ==
    [][(pc \in {"get_messages", "peek_messages"} /\ calls' # <<>>)
       => /\ queue # <<>>
          /\ queue' = Tail(queue)
          /\ Len(calls') = 1
          /\ calls'[1].msg = Head(queue)
          /\ calls'[1].before = state
          /\ calls'[1].after = state'
          /\ \A j \in DOMAIN calls'[1].sent : calls'[1].sent[j].to = handler
          /\ LET alone == wndproc(OnlySlot(state.low_surrogate), StatePtr, Head(queue))
             IN /\ Events(calls'[1].sent) = Events(alone.sent)
                /\ state'.low_surrogate = alone.st.low_surrogate]_vars

\* The first of two different queued messages has been dispatched and its event
\* delivered; the second is still in the queue
C22_FirstOfTwoDelivered ==
    /\ pc = "peek_messages"
    /\ Len(calls) = 1
    /\ calls[1].sent # <<>>
    /\ calls[1].during # 0
    /\ queue # <<>>
    /\ Head(queue) # calls[1].msg

\* The kinds of event wndproc decodes from each kind of message
EventTypes(msg) ==
    CASE msg = "WM_CLOSE" -> {"CloseRequested"}
      [] msg = "WM_SIZE" -> {"Resized"}
      [] msg = "WM_MOVE" -> {"Moved"}
      [] msg = "WM_MOUSEMOVE" -> {"CursorMoved"}
      [] msg = "WM_CHAR" -> {"Text"}
      [] msg = "WM_INPUT" -> {"KeyboardKey", "MouseMoved", "MouseButton", "MouseWheel"}
      [] OTHER -> {}

\* C23: a message the callback is given while GWLP_USERDATA is 0 goes to
\* default_wndproc only: no event, no change of State. A message it is given
\* while a State is attached and no poll call is in progress is decoded (a
\* WM_SIZE gives one Resized event) and every event goes to the no-op handler,
\* the handler slot staying no-op. A message dispatched during a poll call
\* delivers only events of its own kind, at most one unless it is raw input, so
\* no event of an earlier message reaches the closure of a later poll.
C23_UnheardMessagesAreAbsorbed ==
    \A i \in DOMAIN calls :
        LET c == calls[i] IN
        /\ c.state = "null"
           => /\ c.sent = <<>>
              /\ c.after = c.before
              /\ c.def = (c.msg.msg # "WM_CLOSE")
        /\ (c.state = "live" /\ c.during = 0)
           => /\ \A j \in DOMAIN c.sent : c.sent[j].to = 0
              /\ c.after.handler_fn = "default_state_handler"
              /\ c.msg.msg = "WM_SIZE"
                 => Len(c.sent) = 1 /\ c.sent[1].event.type = "Resized"
        /\ (c.state = "live" /\ c.during # 0)
           => /\ \A j \in DOMAIN c.sent :
                    /\ c.sent[j].event.type \in EventTypes(c.msg.msg)
                    /\ c.sent[j].to = c.during
              /\ c.msg.msg # "WM_INPUT" => Len(c.sent) <= 1

\* After a poll call returned, set_visible made the platform send WM_SIZE and
\* its Resized event went to the no-op handler
C23_ResizedBetweenPolls ==
    /\ pc = "idle"
    /\ returned = "unit"
    /\ state.handler_state # 0
    /\ \E i \in DOMAIN calls :
          /\ calls[i].msg.msg = "WM_SIZE"
          /\ calls[i].state = "live"
          /\ calls[i].during = 0
          /\ Len(calls[i].sent) = 1
          /\ calls[i].sent[1].to = 0

\* The handler slot of the State: the function pointer and the closure address
HandlerSlot(st) == <<st.handler_fn, st.handler_state>>

Polling == pc \in {"get_messages", "peek_messages"}

\* C24: the handler slot changes only where a poll call starts, which installs
\* the trampoline with that call's closure, and where a poll call ends (by
\* return or by unwinding), which puts the no-op function back; no callback
\* invocation changes it. The trampoline is installed only while a poll call
\* is in progress, and it then points at the closure of that call alone.
C24_HandlerSlotChangesAtPollBoundaries ==
    /\ [](/\ Polling => state.handler_fn = "handler_fn"
          /\ state.handler_fn = "handler_fn"
             => /\ pc \in {"get_messages", "peek_messages", "aborted"}
                /\ handler # 0
                /\ state.handler_state = handler)
    /\ [][/\ HandlerSlot(state') # HandlerSlot(state)
             => \/ /\ pc = "idle"
                   /\ Polling'
                   /\ HandlerSlot(state') = <<"handler_fn", handler'>>
                \/ /\ Polling
                   /\ pc' = "idle"
                   /\ HandlerSlot(state') = <<"default_state_handler", handler>>
          /\ (pc = "idle" /\ Polling') => state'.handler_fn = "handler_fn"
          /\ (Polling /\ pc' = "idle") => state'.handler_fn = "default_state_handler"
          /\ \A i \in DOMAIN calls' :
                HandlerSlot(calls'[i].after) = HandlerSlot(calls'[i].before)]_vars

\* A poll call with the second closure delivered an event ...
C24_SecondClosureInstalled ==
    /\ pc = "peek_messages"
    /\ handler = 2
    /\ HandlerSlot(state) = <<"handler_fn", 2>>
    /\ Len(calls) = 1
    /\ calls[1].sent # <<>>
    /\ calls[1].sent[1].to = 2

\* The values the pending slot may hold: empty, or one unit in 0xDC00..0xDFFF
PendingSlot(slot) == slot = 0 \/ InRange(slot, 56320, 57343)

\* C25: the pending slot is always empty or one unit in 0xDC00..0xDFFF, before
\* and after every unit fed to the decoder, and a unit fed to the decoder
\* sends at most one Text event.
C25_SlotHoldsAtMostOneLowUnit ==
    /\ PendingSlot(state.low_surrogate)
    /\ \A i \in DOMAIN calls :
          /\ PendingSlot(calls[i].before.low_surrogate)
          /\ PendingSlot(calls[i].after.low_surrogate)
          /\ calls[i].msg.msg = "WM_CHAR" => Len(calls[i].sent) <= 1

\* A unit was fed while the slot was occupied and sent one Text event
C25_TextSentWithSlotOccupied ==
    /\ Len(calls) = 1
    /\ calls[1].msg.msg = "WM_CHAR"
    /\ calls[1].before.low_surrogate = 56832
    /\ Len(calls[1].sent) = 1
    /\ state.low_surrogate = 0

\* C26: a unit in 0xDC00..0xDFFF fed while another is pending sends no event
\* and becomes the pending unit; the State then holds nothing of the earlier
\* unit, and the Text event a later unit sends is the one that unit sends from
\* a State that only ever held the replacement.
C26_LaterLowUnitReplacesPending ==
    [][\A i \in DOMAIN calls :
          (/\ calls[i].msg.msg = "WM_CHAR"
           /\ calls[i].before.low_surrogate # 0
           /\ is_low_surrogate(Unit(calls[i])))
          => /\ calls[i].sent = <<>>
             /\ calls[i].after = [calls[i].before EXCEPT !.low_surrogate = Unit(calls[i])]
             /\ state = calls[i].after
             /\ \A j \in DOMAIN calls' :
                   calls'[j].msg.msg = "WM_CHAR"
                   => Events(calls'[j].sent) =
                         Events(take_u16_code_point(
                                    OnlySlot(Unit(calls[i])), Unit(calls'[j])).sent)]_vars

\* A second low unit replaced the pending one and a further unit is queued
C26_PendingUnitReplaced ==
    /\ Len(calls) = 1
    /\ calls[1].msg.msg = "WM_CHAR"
    /\ calls[1].before.low_surrogate = 56320
    /\ Unit(calls[1]) = 56832
    /\ state.low_surrogate = 56832
    /\ queue # <<>>
    /\ Head(queue).wparam = 55357

\* C27: the start of a poll call (set_handler) and its end (remove_handler, by
\* return or by unwinding) leave the pending slot as it was. The slot changes
\* only in a step that runs the callback on a WM_CHAR message, so a unit
\* buffered in one poll call is what the first WM_CHAR unit of a later call
\* finds; that unit, when the callback runs to completion on it, either
\* empties the slot or takes its place.
C27_PendingUnitSurvivesPollCalls ==
    [][/\ ((pc = "idle" /\ Polling') \/ (Polling /\ pc' = "idle"))
          => state'.low_surrogate = state.low_surrogate
       /\ state'.low_surrogate # state.low_surrogate
          => \E i \in DOMAIN calls' :
                /\ calls'[i].msg.msg = "WM_CHAR"
                /\ calls'[i].state = "live"
                /\ calls'[i].during # 0
       /\ \A i \in DOMAIN calls' :
             (calls'[i].msg.msg = "WM_CHAR" /\ calls'[i].state = "live"
                                            /\ ~calls'[i].unwound)
             => /\ calls'[i].before.low_surrogate = state.low_surrogate
                /\ calls'[i].after.low_surrogate \in {0, Unit(calls'[i])}]_vars

\* A later poll call has started with the unit an earlier call buffered still
\* pending, and a WM_CHAR message is about to be dispatched
C27_PendingAtNextPoll ==
    /\ pc = "peek_messages"
    /\ wait = "none"
    /\ calls = <<>>
    /\ state.low_surrogate = 56832
    /\ state.handler_fn = "handler_fn"
    /\ queue # <<>>
    /\ Head(queue).msg = "WM_CHAR"

\* The KeyboardKey events of the callback invocations of the latest step, each
\* with the raw keyboard sample it was decoded from
KeyEvents ==
    { [kb |-> calls[i].msg.raw, ev |-> calls[i].sent[j].event] :
        <<i, j>> \in { p \in Completed("WM_INPUT") \X (1..2) :
                         /\ IsKeyboard(calls[p[1]])
                         /\ p[2] \in DOMAIN calls[p[1]].sent
                         /\ calls[p[1]].sent[p[2]].event.type = "KeyboardKey" } }

\* The keyboard samples of the latest step that are not fake keys
RealKeys ==
    { calls[i].msg.raw : i \in { k \in Completed("WM_INPUT") :
                                   IsKeyboard(calls[k]) /\ calls[k].msg.raw.VKey # 255 } }

\* C28: the dedicated left and right virtual keys of Shift, Control and Alt give
\* the key of their side whatever the flags and the scan code; the generic Shift
\* virtual key gives RightShift when the scan code is 0x36 and LeftShift
\* otherwise, whatever the E0 flag; the generic Control and Alt virtual keys
\* give the right-hand key when E0 is set and the left-hand key otherwise,
\* whatever the scan code.
C28_ModifierSide ==
    /\ \A kb \in RealKeys : \E e \in KeyEvents : e.kb = kb
    /\ \A e \in KeyEvents :
          LET e0 == FlagSet(e.kb.Flags, RI_KEY_E0) IN
          /\ e.kb.VKey = VK_LSHIFT => e.ev.key = "LeftShift"
          /\ e.kb.VKey = VK_RSHIFT => e.ev.key = "RightShift"
          /\ e.kb.VKey = VK_LCONTROL => e.ev.key = "LeftControl"
          /\ e.kb.VKey = VK_RCONTROL => e.ev.key = "RightControl"
          /\ e.kb.VKey = VK_LMENU => e.ev.key = "LeftAlt"
          /\ e.kb.VKey = VK_RMENU => e.ev.key = "RightAlt"
          /\ e.kb.VKey = VK_SHIFT
             => e.ev.key = IF e.kb.MakeCode = 54 THEN "RightShift" ELSE "LeftShift"
          /\ e.kb.VKey = VK_CONTROL
             => e.ev.key = IF e0 THEN "RightControl" ELSE "LeftControl"
          /\ e.kb.VKey = VK_MENU
             => e.ev.key = IF e0 THEN "RightAlt" ELSE "LeftAlt"

\* The generic Shift key with scan code 0x36 and E0 clear was decoded as RightShift
C28_GenericShiftRightByScanCode ==
    \E e \in KeyEvents :
        /\ e.kb.VKey = VK_SHIFT
        /\ e.kb.MakeCode = 54
        /\ ~FlagSet(e.kb.Flags, RI_KEY_E0)
        /\ e.ev.key = "RightShift"

\* C29: the pressed field of every KeyboardKey event is TRUE exactly when the
\* release (break) bit of the sample's flags is clear, whatever the E0 and E1
\* bits, the virtual key and the scan code.
C29_PressedIffBreakBitClear ==
    /\ \A kb \in RealKeys : \E e \in KeyEvents : e.kb = kb
    /\ \A e \in KeyEvents :
          e.ev.pressed = ~FlagSet(e.kb.Flags, RI_KEY_BREAK)

\* A press with both prefix bits set was decoded as a press
C29_PressWithPrefixBits ==
    \E e \in KeyEvents :
        /\ e.kb.Flags = RI_KEY_E0 + RI_KEY_E1
        /\ e.ev.pressed

\* C30: the key identity of every KeyboardKey event holds the sample's scan code
\* unchanged, and an extended-flag byte in 0..3 whose bit 0x01 is the E0 flag and
\* whose bit 0x02 is the E1 flag, whatever the release flag and the virtual key.
C30_KeyCodeIsScanCodeAndPrefixes ==
    /\ \A kb \in RealKeys : \E e \in KeyEvents : e.kb = kb
    /\ \A e \in KeyEvents :
          /\ e.ev.code.code = e.kb.MakeCode
          /\ e.ev.code.extended_flags \in 0..3
          /\ FlagSet(e.ev.code.extended_flags, 1) = FlagSet(e.kb.Flags, RI_KEY_E0)
          /\ FlagSet(e.ev.code.extended_flags, 2) = FlagSet(e.kb.Flags, RI_KEY_E1)

\* A release with the E1 prefix alone gave the extended-flag byte 0x02
C30_ReleaseWithE1Prefix ==
    \E e \in KeyEvents :
        /\ e.kb.Flags = RI_KEY_BREAK + RI_KEY_E1
        /\ e.kb.MakeCode = 82
        /\ e.ev.code = [code |-> 82, extended_flags |-> 2]

MovedEvents(sent) == SelectSeq(sent, LAMBDA d : d.event.type = "MouseMoved")

\* C31: a raw mouse sample whose absolute bit is clear and whose x or y delta
\* is not 0 sends exactly one MouseMoved event, with the sample's deltas, as
\* the first event of the sample; a sample with the absolute bit set, or with
\* both deltas 0, sends no MouseMoved event.
C31_MouseMovedIffRelativeAndNonzero ==
    \A i \in Completed("WM_INPUT") :
        LET c == calls[i]
            m == c.msg.raw
        IN IsMouse(c)
           => IF ~FlagSet(m.usFlags, MOUSE_MOVE_ABSOLUTE) /\ (m.lLastX # 0 \/ m.lLastY # 0)
              THEN /\ Len(MovedEvents(c.sent)) = 1
                   /\ c.sent[1].event = [type |-> "MouseMoved", device |-> m.hDevice,
                                         dx |-> m.lLastX, dy |-> m.lLastY]
              ELSE MovedEvents(c.sent) = <<>>

\* A relative sample with only a vertical delta, a button transition and a
\* wheel sent MouseMoved first and two more events
C31_VerticalMotionBeforeButton ==
    /\ Len(calls) = 1
    /\ ~calls[1].unwound
    /\ IsMouse(calls[1])
    /\ calls[1].msg.raw.lLastX = 0
    /\ calls[1].msg.raw.lLastY = -2
    /\ Len(calls[1].sent) = 3
    /\ calls[1].sent[1].event.type = "MouseMoved"
    /\ calls[1].sent[1].event.dy = -2
    /\ calls[1].sent[2].event.type = "MouseButton"

RawEventTypes == {"KeyboardKey", "MouseMoved", "MouseButton", "MouseWheel"}

\* C32: every event the callback sends for a WM_INPUT message is a
\* KeyboardKey, MouseMoved, MouseButton or MouseWheel event whose device is
\* the hDevice of that message's own raw sample, also when the sample
\* dispatched before it came from another device.
C32_DeviceIsSampleSource ==
    [][\A i \in DOMAIN calls' :
          calls'[i].msg.msg = "WM_INPUT"
          => \A j \in DOMAIN calls'[i].sent :
                /\ calls'[i].sent[j].event.type \in RawEventTypes
                /\ calls'[i].sent[j].event.device = calls'[i].msg.raw.hDevice
                /\ \A k \in DOMAIN calls :
                      calls[k].msg.raw.hDevice # calls'[i].msg.raw.hDevice
                      => calls'[i].sent[j].event.device # calls[k].msg.raw.hDevice]_vars

\* A key of device 1 was delivered and a mouse sample of device 2, with
\* motion, a button and a wheel, is the next message of the same poll call
C32_SampleOfOtherDeviceNext ==
    /\ Len(calls) = 1
    /\ ~calls[1].unwound
    /\ IsKeyboard(calls[1])
    /\ calls[1].msg.raw.hDevice = 1
    /\ Len(calls[1].sent) = 1
    /\ calls[1].sent[1].event.device = 1
    /\ queue # <<>>
    /\ Head(queue).raw.hDevice = 2
    /\ Head(queue).raw.dwType = RIM_TYPEMOUSE
    /\ Head(queue).raw.lLastX = 3

\* The places of a platform call in the log
Places(name) == { k \in DOMAIN log : log[k].call = name }

\* Both style words have been written
StylesApplied ==
    \E i, j \in DOMAIN log :
        /\ i < j
        /\ log[i] = [call |-> "SetWindowLongW(GWL_EXSTYLE)", ok |-> TRUE]
        /\ log[j] = [call |-> "SetWindowLongW(GWL_STYLE)", ok |-> TRUE]

\* C33: the native window starts with both style words empty; the write of the
\* extended style word comes right before the write of the style word, both
\* after CreateWindowExW; the visible bit is in no style word the window has
\* had before the last one, which the style write gave it after the extended
\* style write had been made; and set_visible (ShowWindow) runs only on a
\* Window that Window::new returned, both style words written.
C33_NotVisibleBeforeStyled ==
    /\ [](/\ words # <<>> => words[1] = NoStyles
          /\ \A k \in Places("SetWindowLongW(GWL_STYLE)") :
                /\ k > 1
                /\ log[k - 1].call = "SetWindowLongW(GWL_EXSTYLE)"
                /\ \E c \in Places("CreateWindowExW") : c < k - 1 /\ log[c].ok
          /\ \A k \in Places("SetWindowLongW(GWL_EXSTYLE)") :
                k < Len(log) /\ log[k + 1].call = "SetWindowLongW(GWL_STYLE)"
          /\ \A k \in DOMAIN words :
                WS_VISIBLE \subseteq words[k].style
                => /\ k = Len(words)
                   /\ config.visible
                   /\ words[k] = gwl
                   /\ \E i \in Places("SetWindowLongW(GWL_EXSTYLE)"),
                         j \in Places("SetWindowLongW(GWL_STYLE)") : i < j /\ log[j].ok)
    /\ [][(\E msgs \in SeqsUpTo(SentMessages, MaxSent) : set_visible(msgs))
          => /\ result = "Ok"
             /\ StylesApplied
             /\ Len(words) = 3]_vars

\* A visible window was created: it had empty style words, then the extended
\* style word, then the style word with the visible bit
C33_VisibleAfterBothWrites ==
    /\ result = "Ok"
    /\ pc = "idle"
    /\ config.visible
    /\ StylesApplied
    /\ Len(words) = 3
    /\ words[1] = NoStyles
    /\ words[2].style = {}
    /\ WS_VISIBLE \subseteq words[3].style

\* A Window exists: Window::new returned it and its drop has not begun
WindowExists == pc = "idle" \/ Polling

\* C34: SetWindowLongPtrW(GWLP_USERDATA) is called at most once, as the last
\* call of Window::new, and Window::new returns a Window exactly when that one
\* call was made and succeeded; the stored pointer changes only in that step,
\* from 0 to the address of the boxed State; while the Window exists, and so
\* during every poll call and every callback invocation a poll call makes, the
\* stored pointer is that address and the State is allocated.
C34_StateAttachedOnceBeforePolls ==
    /\ [](/\ Cardinality(Places("SetWindowLongPtrW(GWLP_USERDATA)")) <= 1
          /\ result = "Ok"
             <=> \E k \in Places("SetWindowLongPtrW(GWLP_USERDATA)") : log[k].ok
          /\ \A k \in Places("SetWindowLongPtrW(GWLP_USERDATA)") :
                \A j \in DOMAIN log : (j > k) => log[j].call \notin CreationCalls
          /\ result # "Ok" => userdata = 0
          /\ WindowExists
             => /\ result = "Ok"
                /\ userdata = StatePtr
                /\ state_alloc = "live"
          /\ Polling => \A i \in DOMAIN calls :
                           calls[i].during # 0 /\ calls[i].state = "live")
    /\ [][userdata' # userdata
          => /\ pc = "start"
             /\ pc' = "idle"
             /\ userdata = 0
             /\ userdata' = StatePtr
             /\ state_alloc' = "live"]_vars

\* A poll call on a created Window dispatched a message with the State attached
C34_PolledWithStateAttached ==
    /\ pc = "peek_messages"
    /\ result = "Ok"
    /\ userdata = StatePtr
    /\ Len(calls) = 1
    /\ calls[1].state = "live"
    /\ calls[1].during = 1
    /\ calls[1].sent # <<>>
    /\ log[Len(log)] = [call |-> "SetWindowLongPtrW(GWLP_USERDATA)", ok |-> TRUE]

\* The platform call succeeded at some place of the log
Succeeded(name) == \E k \in Places(name) : log[k].ok

Signed16(w) == IF w >= 32768 THEN w - 65536 ELSE w

\* The message with bits 32..63 of its LPARAM cleared
LowHalf(m) == [m EXCEPT !.lparam = <<m.lparam[1], m.lparam[2], 0, 0>>]

\* C36: the one event of a WM_SIZE message is Resized with width the lowest
\* 16-bit word of the LPARAM and height the next word, both in 0..65535; the
\* one event of a WM_MOVE (WM_MOUSEMOVE) message is Moved (CursorMoved) with x
\* and y those two words read as signed 16-bit numbers, in -32768..32767; and
\* the event is the one the same message gives with bits 32..63 cleared.
C36_CoordinatesFromLowWords ==
    \A i \in DOMAIN calls :
        LET c == calls[i]
            lo == c.msg.lparam[1]
            hi == c.msg.lparam[2]
        IN (c.state = "live" /\ c.msg.msg \in {"WM_SIZE", "WM_MOVE", "WM_MOUSEMOVE"})
           => /\ Len(c.sent) = 1
              /\ c.msg.msg = "WM_SIZE"
                 => /\ c.sent[1].event = [type |-> "Resized", width |-> lo, height |-> hi]
                    /\ c.sent[1].event.width \in 0..65535
                    /\ c.sent[1].event.height \in 0..65535
              /\ c.msg.msg = "WM_MOVE"
                 => c.sent[1].event =
                       [type |-> "Moved", x |-> Signed16(lo), y |-> Signed16(hi)]
              /\ c.msg.msg = "WM_MOUSEMOVE"
                 => c.sent[1].event =
                       [type |-> "CursorMoved", x |-> Signed16(lo), y |-> Signed16(hi)]
              /\ c.msg.msg # "WM_SIZE"
                 => /\ c.sent[1].event.x \in -32768..32767
                    /\ c.sent[1].event.y \in -32768..32767
              /\ Events(c.sent) = Events(wndproc(c.before, StatePtr, LowHalf(c.msg)).sent)

\* A WM_MOVE whose LPARAM has the words 0x8000, 0xFFFF and all upper bits set
\* gave Moved with x = -32768 and y = -1
C36_NegativeMove ==
    /\ Len(calls) = 1
    /\ calls[1].msg.msg = "WM_MOVE"
    /\ calls[1].msg.lparam = <<32768, 65535, 65535, 65535>>
    /\ calls[1].sent # <<>>
    /\ calls[1].sent[1].to = 1
    /\ calls[1].sent[1].event = [type |-> "Moved", x |-> -32768, y |-> -1]

====
